---- MODULE Spec2Model ----
(***************************************************************************)
(* XewaliChessRust: the search kernel of src/src/engine.rs as a state      *)
(* machine.  play_move, search and quiescence run on an explicit call      *)
(* stack; one action is one stretch of code between two calls or returns.  *)
(* The rules library (crate `chess`) is represented by a finite game       *)
(* graph: positions, their legal moves in generator order, and the board   *)
(* queries the engine makes.  Scores are integers; the two f64 infinities  *)
(* are two integers outside the range of every finite score, which is all  *)
(* the engine uses them for (comparison, max, min).                        *)
(***************************************************************************)
EXTENDS Integers, Sequences, FiniteSets, TLC

(***************************************************************************)
(* Bounds of the model.                                                    *)
(***************************************************************************)
\* Iterative deepening (`for depth in 1..`) is cut off after this depth.
MaxDepth == 5
\* Deepest direct call of search in SpecSearch.
MaxSearchDepth == 4
\* The engine polls the clock when nodes & 4095 == 0, i.e. every 4096
\* visits.  The model polls every NodePoll visits so that polling instants
\* fall inside the bounded trees.
NodePoll == 4
\* MAX_TT_ENTRIES is 1_000_000 in the source; the model uses a capacity the
\* bounded search can fill.
MAX_TT_ENTRIES == 5
\* Longest move list given to set_position.
MaxMoves == 3

(***************************************************************************)
(* Program constants.                                                      *)
(***************************************************************************)
MATE_EVAL == 1000000
MAX_QUIESCENCE_DEPTH == 8
NULL_MOVE_R == 2
INFINITY == MATE_EVAL + MATE_EVAL
NEG_INFINITY == 0 - INFINITY

Max(a, b) == IF a >= b THEN a ELSE b
Min(a, b) == IF a <= b THEN a ELSE b
Abs(a) == IF a < 0 THEN 0 - a ELSE a

(***************************************************************************)
(* The rules library: a finite game graph.  A position is a number, and    *)
(* Board::get_hash is the position itself (no collisions).  Odd positions  *)
(* have White to move, even ones Black.                                    *)
(***************************************************************************)
NoMove == [uci |-> "none", to |-> 0, victim |-> "none", attacker |-> "none",
           promo |-> "none", ep |-> FALSE]

Mv(u, t, v, a) == [uci |-> u, to |-> t, victim |-> v, attacker |-> a,
                   promo |-> "none", ep |-> FALSE]
Quiet(u, t) == Mv(u, t, "none", "N")
Promotion(u, t, piece) == [Mv(u, t, "none", "P") EXCEPT !.promo = piece]
EnPassant(u, t) == [Mv(u, t, "none", "P") EXCEPT !.ep = TRUE]

\* MoveGen::new_legal(board), in generator order.  Positions 1..10 and
\* 11..20 are two games of the same shape with different evaluations.  In 21
\* White is in check and has one move; in 23 White mates in one (22).
LegalMoves ==
  <<
  (* 1 *) << Quiet("a", 2), Mv("b", 4, "P", "N"), Quiet("c", 6), Quiet("d", 8),
             Quiet("e", 10) >>,
  (* 2 *) << Quiet("a", 3), Mv("b", 5, "P", "P") >>,
  (* 3 *) << Quiet("a", 2), Quiet("b", 6) >>,
  (* 4 *) << Mv("a", 5, "N", "P"), Quiet("b", 7) >>,
  (* 5 *) << Mv("a", 6, "P", "Q"), Quiet("b", 8) >>,
  (* 6 *) << Quiet("a", 9), Quiet("b", 1), Mv("c", 5, "Q", "P") >>,
  (* 7 *) << >>,
  (* 8 *) << Quiet("a", 9), Quiet("b", 1) >>,
  (* 9 *) << Quiet("a", 10), Quiet("b", 8) >>,
  (* 10 *) << Quiet("a", 1), Quiet("b", 3) >>,
  (* 11 *) << Quiet("a", 12), Mv("b", 14, "P", "N"), Quiet("c", 16), Quiet("d", 18),
              Quiet("e", 20) >>,
  (* 12 *) << Quiet("a", 13), EnPassant("b", 15) >>,
  (* 13 *) << Quiet("a", 12), Quiet("b", 16) >>,
  (* 14 *) << Mv("a", 15, "N", "P"), Quiet("b", 17) >>,
  (* 15 *) << Mv("a", 16, "P", "Q"), Quiet("b", 18) >>,
  (* 16 *) << Quiet("a", 19), Quiet("b", 11), Mv("c", 15, "Q", "P") >>,
  (* 17 *) << >>,
  (* 18 *) << Quiet("a", 19), Quiet("b", 11) >>,
  (* 19 *) << Quiet("a", 20), Promotion("b", 18, "Q") >>,
  (* 20 *) << Quiet("a", 11), Quiet("b", 13) >>,
  (* 21 *) << Quiet("a", 20) >>,
  (* 22 *) << >>,
  (* 23 *) << Quiet("a", 20), Quiet("b", 22) >>
  >>

Positions == 1 .. Len(LegalMoves)

\* board.side_to_move() == Color::White
WhiteToMove(p) == p % 2 = 1

\* *board.checkers() != EMPTY
InCheckSet == {7, 17, 21, 22}
InCheck(p) == p \in InCheckSet

\* board.null_move(): None while in check, else the same pieces with the
\* other side to move (0 also for 23, whose side to move has only pawns, so
\* that the engine never asks)
NullBoard == << 10, 9, 8, 7, 4, 3, 0, 5, 2, 1,
                20, 19, 18, 17, 14, 13, 0, 15, 12, 11,
                0, 0, 0 >>
null_move(p) == IF InCheck(p) THEN 0 ELSE NullBoard[p]

\* board.make_move_new(mv)
make_move_new(p, mv) == mv.to

\* positions whose side to move owns a knight, bishop, rook or queen
NonPawnSet == {1, 2, 3, 4, 5, 6, 8, 11, 12, 13, 14, 15, 16, 18}

\* the positional sum of eval for the positions where the game is ongoing
PositionalSum == << 10, 30, 0 - 20, 40, 15, 25, 0, 0 - 5, 5, 0 - 30,
                    10, 0, 0 - 10, 40, 0, 0 - 30, 0, 0 - 20, 5, 0 - 20,
                    35, 0, 20 >>

InsufficientSet == {}

\* evaluation.rs eval: the game-end results come before the positional sum
eval(p) ==
  IF LegalMoves[p] = << >>
  THEN IF InCheck(p)
       THEN (IF WhiteToMove(p) THEN 0 - MATE_EVAL ELSE MATE_EVAL)
       ELSE 0
  ELSE IF p \in InsufficientSet THEN 0 ELSE PositionalSum[p]

(***************************************************************************)
(* Pure helpers of engine.rs.                                              *)
(***************************************************************************)
is_capture(p, mv) == mv.victim # "none" \/ mv.ep

piece_order_value(piece) ==
  CASE piece = "P" -> 100
    [] piece = "N" -> 320
    [] piece = "B" -> 330
    [] piece = "R" -> 500
    [] piece = "Q" -> 900
    [] piece = "K" -> 20000

\* (variant: the move of the table entry is scored like any other move)
score_moveNoTT(p, mv, tt_move) ==
  (IF mv.promo # "none" THEN 9000 + piece_order_value(mv.promo) ELSE 0)
  + (IF mv.victim # "none"
     THEN piece_order_value(mv.victim) * 10 - piece_order_value(mv.attacker)
     ELSE IF mv.ep THEN 100 * 10 - 100 ELSE 0)

score_move(p, mv, tt_move) ==
  IF tt_move = mv THEN 100000
  ELSE (IF mv.promo # "none" THEN 9000 + piece_order_value(mv.promo) ELSE 0)
       + (IF mv.victim # "none"
          THEN piece_order_value(mv.victim) * 10 - piece_order_value(mv.attacker)
          ELSE IF mv.ep THEN 100 * 10 - 100 ELSE 0)

has_non_pawn_material(p) == p \in NonPawnSet

\* slice::sort_by is stable: x goes behind every element that does not
\* order after it
RECURSIVE InsertStable(_, _, _)
InsertStable(x, s, desc) ==
  IF s = << >> THEN << x >>
  ELSE IF (IF desc THEN Head(s)[2] >= x[2] ELSE Head(s)[2] <= x[2])
       THEN << Head(s) >> \o InsertStable(x, Tail(s), desc)
       ELSE << x >> \o s

RECURSIVE SortStable(_, _)
SortStable(s, desc) ==
  IF s = << >> THEN << >>
  ELSE InsertStable(s[Len(s)], SortStable(SubSeq(s, 1, Len(s) - 1), desc), desc)

\* search, move ordering: score, sort descending, drop the scores
OrderMoves(p, tt_move) ==
  LET scored == [i \in 1 .. Len(LegalMoves[p]) |->
                   << LegalMoves[p][i], score_move(p, LegalMoves[p][i], tt_move) >>]
      sorted == SortStable(scored, TRUE)
  IN  [i \in 1 .. Len(sorted) |-> sorted[i][1]]

\* (variant: the clock is polled half as often)
check_timeRare(n, st, late) ==
  [nodes |-> n + 1,
   stopped |-> IF (n + 1) % (NodePoll + NodePoll) = 0 /\ late THEN TRUE ELSE st]

\* SearchState::check_time: count the node, poll the clock every NodePoll
\* nodes; late is start.elapsed() > time_limit
check_time(n, st, late) ==
  [nodes |-> n + 1,
   stopped |-> IF (n + 1) % NodePoll = 0 /\ late THEN TRUE ELSE st]

Count(k, h) == Cardinality({i \in 1 .. Len(h) : h[i] = k})

\* (variant: a position counts as repeated only from its third occurrence)
IsRepetitionThird(k, h) == Count(k, h) >= 3

\* search, repetition detection
IsRepetition(k, h) == Count(k, h) >= 2

(***************************************************************************)
(* Transposition table: HashMap<u64, TTEntry> as a set of keyed entries.   *)
(***************************************************************************)
NoEntry == [key |-> 0, depth |-> 0 - 1, eval |-> 0, flag |-> "None", best_move |-> NoMove]

TTEntry(k, d, e, f, m) == [key |-> k, depth |-> d, eval |-> e, flag |-> f, best_move |-> m]

\* HashMap::get
TTGet(t, k) == IF \E e \in t : e.key = k THEN CHOOSE e \in t : e.key = k ELSE NoEntry

\* HashMap::insert replaces the entry of the key
TTInsert(t, e) == {x \in t : x.key # e.key} \cup {e}

\* (variant: the store ignores the capacity)
TTStoreUnbounded(t, e) == TTInsert(t, e)

\* search, store: dropped when the table is at capacity
TTStore(t, e) == IF Cardinality(t) < MAX_TT_ENTRIES THEN TTInsert(t, e) ELSE t

\* (variant: an entry of any depth may decide the node)
TTProbeAnyDepth(t, k, depth, alpha, beta) ==
  LET entry == TTGet(t, k)
      cut == /\ entry # NoEntry
             /\ \/ entry.flag = "Exact"
                \/ entry.flag = "LowerBound" /\ entry.eval >= beta
                \/ entry.flag = "UpperBound" /\ entry.eval <= alpha
  IN  [entry |-> entry, tt_move |-> entry.best_move, cutoff |-> cut,
       value |-> entry.eval, alpha |-> alpha, beta |-> beta]

\* (variant: a deep enough bound entry that does not decide the node narrows
\* the window)
TTProbeTighten(t, k, depth, alpha, beta) ==
  LET entry == TTGet(t, k)
      deep == entry # NoEntry /\ entry.depth >= depth
      cut == /\ deep
             /\ \/ entry.flag = "Exact"
                \/ entry.flag = "LowerBound" /\ entry.eval >= beta
                \/ entry.flag = "UpperBound" /\ entry.eval <= alpha
  IN  [entry |-> entry, tt_move |-> entry.best_move, cutoff |-> cut,
       value |-> entry.eval,
       alpha |-> IF deep /\ entry.flag = "LowerBound" THEN Max(alpha, entry.eval)
                 ELSE alpha,
       beta |-> IF deep /\ entry.flag = "UpperBound" THEN Min(beta, entry.eval)
                ELSE beta]

\* search, probe: the result of looking the node up with window (alpha, beta)
TTProbe(t, k, depth, alpha, beta) ==
  LET entry == TTGet(t, k)
      hit == entry # NoEntry
      cut == /\ hit
             /\ entry.depth >= depth
             /\ \/ entry.flag = "Exact"
                \/ entry.flag = "LowerBound" /\ entry.eval >= beta
                \/ entry.flag = "UpperBound" /\ entry.eval <= alpha
  IN  [entry |-> entry, tt_move |-> entry.best_move, cutoff |-> cut,
       value |-> entry.eval, alpha |-> alpha, beta |-> beta]

\* search, flag of the entry stored at node completion
TTFlagOf(white, best_eval, original_alpha, original_beta) ==
  IF white
  THEN IF best_eval <= original_alpha THEN "UpperBound"
       ELSE IF best_eval >= original_beta THEN "LowerBound"
       ELSE "Exact"
  ELSE IF best_eval >= original_beta THEN "UpperBound"
       ELSE IF best_eval <= original_alpha THEN "LowerBound"
       ELSE "Exact"

\* search, conditions of null-move pruning and of late-move reduction
\* (variant: the null move is tried whether allowed or not)
TryNullAgain(p, depth, allow_null) ==
  /\ ~InCheck(p) /\ depth >= 3 /\ has_non_pawn_material(p)
  /\ null_move(p) # 0

\* (variant: the null move is tried at every depth)
TryNullShallow(p, depth, allow_null) ==
  /\ allow_null /\ ~InCheck(p) /\ depth >= 1 /\ has_non_pawn_material(p)
  /\ null_move(p) # 0

TryNull(p, depth, allow_null) ==
  /\ allow_null /\ ~InCheck(p) /\ depth >= 3 /\ has_non_pawn_material(p)
  /\ null_move(p) # 0

do_lmr(p, mv, i, depth) ==
  /\ i >= 4 /\ depth >= 3 /\ ~is_capture(p, mv) /\ ~InCheck(p)
  /\ mv.promo = "none" /\ ~InCheck(make_move_new(p, mv))

\* (variant: the reduced score is always taken as it is)
needs_researchNever(white, score, alpha, beta) == FALSE

needs_research(white, score, alpha, beta) ==
  IF white THEN score > alpha ELSE score < beta

(***************************************************************************)
(* State.                                                                  *)
(***************************************************************************)
VARIABLES
  board,             \* play_move: the position to move in (search: the root)
  book,              \* play_move: the opening book, hash -> set of moves
  history,           \* play_move: the caller's history slice
  expired,           \* start.elapsed() > time_limit (time only moves forward)
  pmpc,              \* where play_move stands
  pm,                \* play_move's locals
  transposition_table, position_history, nodes, stopped,  \* SearchState
  stack,             \* frames of search and quiescence, innermost last
  ret,               \* the value the last returned call produced
  result,            \* what play_move returned
  ev,                \* what the last step did (observation only)
  committed,         \* best move and score of the last completed iteration
                     \* (observation only)
  late_at,           \* nodes when the clock passed the limit (observation only)
  sp,                \* set_position: its arguments and its place in the loop
  pieces,            \* eval: the board it is given, square by square
  value,             \* eval: what it returned
  uci,               \* uci_main: the command loop and what it printed
  loader             \* load_games: the file and its place in it

vars == << board, book, history, expired, pmpc, pm, transposition_table,
           position_history, nodes, stopped, stack, ret, result, ev, committed,
           late_at, sp, pieces, value, uci, loader >>

\* the state of set_position, of eval, of the command loop and of the book
\* loader, which the search leaves alone
apart == << sp, pieces, value, uci, loader >>

EvNone ==
  [op |-> "none", exit |-> "none", key |-> 0, depth |-> 0, white |-> FALSE,
   alpha |-> 0, beta |-> 0, entry |-> NoEntry, walpha |-> 0, wbeta |-> 0,
   store |-> "none", sentry |-> NoEntry, oalpha |-> 0, obeta |-> 0,
   evald |-> FALSE, polled |-> FALSE, probed |-> FALSE, hist0 |-> << >>]

Ev(op, f) ==
  [EvNone EXCEPT !.op = op, !.key = f.board, !.depth = f.depth,
                 !.white = WhiteToMove(f.board), !.alpha = f.alpha,
                 !.beta = f.beta, !.hist0 = f.hist0]

Frame(kind, p, alpha, beta, depth, allow_null, h) ==
  [kind |-> kind, pc |-> "enter", board |-> p, alpha |-> alpha, beta |-> beta,
   depth |-> depth, allow_null |-> allow_null, tt_move |-> NoMove,
   moves |-> << >>, i |-> 0, original_alpha |-> alpha, original_beta |-> beta,
   best_eval |-> 0, best_move |-> NoMove, hist0 |-> h]

Top == stack[Len(stack)]
Rest == SubSeq(stack, 1, Len(stack) - 1)
\* (variant: the pop is missing)
PopNothing(h) == h
\* Vec::pop
Pop(h) == SubSeq(h, 1, Len(h) - 1)

\* the machine after a step: the frame returns v ...
Return(v, t, h, e, x) ==
  [stack |-> Rest, ret |-> v, tt |-> t, hist |-> h, ev |-> [e EXCEPT !.exit = x]]
\* ... or calls child and waits for it
Call(f, child, t, h, e) ==
  [stack |-> Rest \o << f, child >>, ret |-> ret, tt |-> t, hist |-> h,
   ev |-> [e EXCEPT !.exit = "call"]]

Step(m) ==
  /\ stack' = m.stack
  /\ ret' = m.ret
  /\ transposition_table' = m.tt
  /\ position_history' = m.hist
  /\ ev' = m.ev

(***************************************************************************)
(* search: the stretches of code between calls.                            *)
(***************************************************************************)
\* one pass of the move loop up to the recursive call (lines 309-338)
LoopIter(f, t, h, e) ==
  LET mv == f.moves[f.i + 1]
      new_board == make_move_new(f.board, mv)
      h2 == Append(h, f.board)
  IN  IF do_lmr(f.board, mv, f.i, f.depth)
      THEN Call([f EXCEPT !.pc = "lmr_wait"],
                Frame("search", new_board, f.alpha, f.beta, f.depth - 2, TRUE, h2),
                t, h2, e)
      ELSE Call([f EXCEPT !.pc = "full_wait"],
                Frame("search", new_board, f.alpha, f.beta, f.depth - 1, TRUE, h2),
                t, h2, e)

\* move generation, ordering and the loop's initial values (lines 284-307)
MoveLoopStart(f, t, h, e) ==
  IF LegalMoves[f.board] = << >>
  THEN Return(eval(f.board), t, h, [e EXCEPT !.evald = TRUE], "nomoves")
  ELSE LET ms == OrderMoves(f.board, f.tt_move)
       IN  LoopIter([f EXCEPT !.moves = ms, !.i = 0,
                              !.original_alpha = f.alpha,
                              !.original_beta = f.beta,
                              !.best_eval = IF WhiteToMove(f.board)
                                            THEN NEG_INFINITY ELSE INFINITY,
                              !.best_move = ms[1]],
                    t, h, e)

\* flag, store and return (lines 365-395)
Finish(f, t, h, e) ==
  LET flag == TTFlagOf(WhiteToMove(f.board), f.best_eval, f.original_alpha,
                       f.original_beta)
      entry == TTEntry(f.board, f.depth, f.best_eval, flag, f.best_move)
      t2 == TTStore(t, entry)
  IN  Return(f.best_eval, t2, h,
             [e EXCEPT !.store = IF entry \in t2 THEN "stored" ELSE "dropped",
                       !.sentry = entry, !.oalpha = f.original_alpha,
                       !.obeta = f.original_beta],
             "complete")

\* (variant: the move loop goes on after a stop)
AfterChildNoStop(f, score, t, h, e) ==
  LET h2 == Pop(h)
      white == WhiteToMove(f.board)
      better == IF white THEN score > f.best_eval ELSE score < f.best_eval
      f2 == [f EXCEPT !.best_eval = IF better THEN score ELSE f.best_eval,
                      !.best_move = IF better THEN f.moves[f.i + 1] ELSE f.best_move,
                      !.alpha = IF white THEN Max(f.alpha, score) ELSE f.alpha,
                      !.beta = IF white THEN f.beta ELSE Min(f.beta, score)]
  IN  IF f2.beta <= f2.alpha \/ f.i + 1 >= Len(f.moves)
      THEN Finish(f2, t, h2, e)
      ELSE LoopIter([f2 EXCEPT !.i = f.i + 1], t, h2, e)

\* what follows the recursive call in the move loop (lines 340-363)
AfterChild(f, score, t, h, e) ==
  LET h2 == Pop(h)
      white == WhiteToMove(f.board)
      better == IF white THEN score > f.best_eval ELSE score < f.best_eval
      f2 == [f EXCEPT !.best_eval = IF better THEN score ELSE f.best_eval,
                      !.best_move = IF better THEN f.moves[f.i + 1] ELSE f.best_move,
                      !.alpha = IF white THEN Max(f.alpha, score) ELSE f.alpha,
                      !.beta = IF white THEN f.beta ELSE Min(f.beta, score)]
  IN  IF stopped THEN Return(0, t, h2, e, "stopped")
      ELSE IF f2.beta <= f2.alpha \/ f.i + 1 >= Len(f.moves)
           THEN Finish(f2, t, h2, e)
           ELSE LoopIter([f2 EXCEPT !.i = f.i + 1], t, h2, e)

\* search from its first line to its first call or return (lines 216-282)
SearchEnter ==
  /\ stack # << >> /\ Top.kind = "search" /\ Top.pc = "enter"
  /\ LET f == Top
         e == Ev("search", f)
         t == transposition_table
         h == position_history
     IN  IF stopped
         THEN /\ Step(Return(0, t, h, e, "stopped"))
              /\ UNCHANGED << nodes, stopped >>
         ELSE LET ct == check_time(nodes, stopped, expired)
                  e1 == [e EXCEPT !.polled = TRUE]
                  pr == TTProbe(t, f.board, f.depth, f.alpha, f.beta)
                  e2 == [e1 EXCEPT !.probed = TRUE, !.entry = pr.entry,
                                   !.walpha = pr.alpha, !.wbeta = pr.beta]
                  f2 == [f EXCEPT !.tt_move = pr.tt_move, !.alpha = pr.alpha,
                                  !.beta = pr.beta]
              IN  /\ nodes' = ct.nodes
                  /\ stopped' = ct.stopped
                  /\ IF ct.stopped THEN Step(Return(0, t, h, e1, "stopped"))
                     ELSE IF IsRepetition(f.board, h)
                     THEN Step(Return(0, t, h, e1, "repetition"))
                     ELSE IF pr.cutoff THEN Step(Return(pr.value, t, h, e2, "tt"))
                     ELSE IF f.depth <= 0
                     THEN Step(Call([f2 EXCEPT !.pc = "qs_wait"],
                                    Frame("quiescence", f.board, f2.alpha, f2.beta,
                                          0, FALSE, h),
                                    t, h, e2))
                     ELSE IF TryNull(f.board, f.depth, f.allow_null)
                     THEN Step(Call([f2 EXCEPT !.pc = "null_wait"],
                                    Frame("search", null_move(f.board), f2.alpha,
                                          f2.beta, f.depth - 1 - NULL_MOVE_R,
                                          FALSE, h),
                                    t, h, e2))
                     ELSE Step(MoveLoopStart(f2, t, h, e2))
  /\ UNCHANGED << apart, late_at, board, book, history, expired, pmpc, pm, result, committed >>

\* `return quiescence(...)` (line 254)
SearchQuiescenceReturn ==
  /\ stack # << >> /\ Top.kind = "search" /\ Top.pc = "qs_wait"
  /\ Step(Return(ret, transposition_table, position_history,
                 Ev("search_qs", Top), "quiescence"))
  /\ UNCHANGED << apart, late_at, board, book, history, expired, pmpc, pm, nodes, stopped,
                  result, committed >>

\* after the null-move search (lines 271-282)
SearchNullReturn ==
  /\ stack # << >> /\ Top.kind = "search" /\ Top.pc = "null_wait"
  /\ LET f == Top
         e == Ev("search_null", f)
         t == transposition_table
         h == position_history
         white == WhiteToMove(f.board)
     IN  IF stopped THEN Step(Return(0, t, h, e, "stopped"))
         ELSE IF white /\ ret >= f.beta THEN Step(Return(f.beta, t, h, e, "null_cut"))
         ELSE IF ~white /\ ret <= f.alpha THEN Step(Return(f.alpha, t, h, e, "null_cut"))
         ELSE Step(MoveLoopStart(f, t, h, e))
  /\ UNCHANGED << apart, late_at, board, book, history, expired, pmpc, pm, nodes, stopped,
                  result, committed >>

\* after the reduced search of a late move (lines 323-335)
SearchLmrReturn ==
  /\ stack # << >> /\ Top.kind = "search" /\ Top.pc = "lmr_wait"
  /\ LET f == Top
         e == Ev("search_lmr", f)
         t == transposition_table
         h == position_history
     IN  IF stopped THEN Step(Return(0, t, Pop(h), e, "stopped"))
         ELSE IF needs_research(WhiteToMove(f.board), ret, f.alpha, f.beta)
         THEN Step(Call([f EXCEPT !.pc = "full_wait"],
                        Frame("search", make_move_new(f.board, f.moves[f.i + 1]),
                              f.alpha, f.beta, f.depth - 1, TRUE, h),
                        t, h, e))
         ELSE Step(AfterChild(f, ret, t, h, e))
  /\ UNCHANGED << apart, late_at, board, book, history, expired, pmpc, pm, nodes, stopped,
                  result, committed >>

\* after the full-depth search of a move (lines 337-363, then 365-395)
SearchFullReturn ==
  /\ stack # << >> /\ Top.kind = "search" /\ Top.pc = "full_wait"
  /\ Step(AfterChild(Top, ret, transposition_table, position_history,
                     Ev("search_loop", Top)))
  /\ UNCHANGED << apart, late_at, board, book, history, expired, pmpc, pm, nodes, stopped,
                  result, committed >>

(***************************************************************************)
(* quiescence.                                                             *)
(***************************************************************************)
\* index (from 0) of the first capture at or after `from` in generator
\* order, -1 if there is none: the `continue` of the capture loop
\* (variant: the loop of quiescence takes every move)
NextCaptureAny(p, from) ==
  IF from <= Len(LegalMoves[p]) - 1 THEN from ELSE 0 - 1

NextCapture(p, from) ==
  LET c == {j \in from .. Len(LegalMoves[p]) - 1 : is_capture(p, LegalMoves[p][j + 1])}
  IN  IF c = {} THEN 0 - 1 ELSE CHOOSE j \in c : \A k \in c : j <= k

\* the capture loop up to the recursive call, or its end (lines 106-112, 123;
\* 133-139, 150)
\* (variant: at the end of the captures the other bound is returned)
QLoopOtherBound(f, from, t, h, e) ==
  LET j == NextCapture(f.board, from)
  IN  IF j < 0
      THEN Return(IF WhiteToMove(f.board) THEN f.beta ELSE f.alpha, t, h, e, "complete")
      ELSE Call([f EXCEPT !.pc = "q_wait", !.i = j],
                Frame("quiescence", make_move_new(f.board, LegalMoves[f.board][j + 1]),
                      f.alpha, f.beta, f.depth + 1, FALSE, h),
                t, h, e)

QLoop(f, from, t, h, e) ==
  LET j == NextCapture(f.board, from)
  IN  IF j < 0
      THEN Return(IF WhiteToMove(f.board) THEN f.alpha ELSE f.beta, t, h, e, "complete")
      ELSE Call([f EXCEPT !.pc = "q_wait", !.i = j],
                Frame("quiescence", make_move_new(f.board, LegalMoves[f.board][j + 1]),
                      f.alpha, f.beta, f.depth + 1, FALSE, h),
                t, h, e)

\* quiescence from its first line to its first call or return (lines 82-112)
QuiescenceEnter ==
  /\ stack # << >> /\ Top.kind = "quiescence" /\ Top.pc = "enter"
  /\ LET f == Top
         e == Ev("quiescence", f)
         t == transposition_table
         h == position_history
     IN  IF stopped
         THEN /\ Step(Return(0, t, h, e, "stopped"))
              /\ UNCHANGED << nodes, stopped >>
         ELSE LET ct == check_time(nodes, stopped, expired)
                  e1 == [e EXCEPT !.polled = TRUE]
                  e2 == [e1 EXCEPT !.evald = TRUE]
                  stand_pat == eval(f.board)
                  white == WhiteToMove(f.board)
              IN  /\ nodes' = ct.nodes
                  /\ stopped' = ct.stopped
                  /\ IF ct.stopped THEN Step(Return(0, t, h, e1, "stopped"))
                     ELSE IF f.depth >= MAX_QUIESCENCE_DEPTH
                     THEN Step(Return(stand_pat, t, h, e2, "qs_cap"))
                     ELSE IF white /\ stand_pat >= f.beta
                     THEN Step(Return(f.beta, t, h, e2, "stand_pat"))
                     ELSE IF ~white /\ stand_pat <= f.alpha
                     THEN Step(Return(f.alpha, t, h, e2, "stand_pat"))
                     ELSE Step(QLoop([f EXCEPT
                                        !.alpha = IF white THEN Max(f.alpha, stand_pat)
                                                  ELSE f.alpha,
                                        !.beta = IF white THEN f.beta
                                                 ELSE Min(f.beta, stand_pat)],
                                     0, t, h, e2))
  /\ UNCHANGED << apart, late_at, board, book, history, expired, pmpc, pm, result, committed >>

\* after the recursive call of the capture loop (lines 113-121, 140-148)
QuiescenceReturn ==
  /\ stack # << >> /\ Top.kind = "quiescence" /\ Top.pc = "q_wait"
  /\ LET f == Top
         e == Ev("quiescence_loop", f)
         t == transposition_table
         h == position_history
         white == WhiteToMove(f.board)
     IN  IF stopped THEN Step(Return(0, t, h, e, "stopped"))
         ELSE IF white /\ ret >= f.beta THEN Step(Return(f.beta, t, h, e, "cutoff"))
         ELSE IF ~white /\ ret <= f.alpha THEN Step(Return(f.alpha, t, h, e, "cutoff"))
         ELSE Step(QLoop([f EXCEPT
                            !.alpha = IF white THEN Max(f.alpha, ret) ELSE f.alpha,
                            !.beta = IF white THEN f.beta ELSE Min(f.beta, ret)],
                         f.i + 1, t, h, e))
  /\ UNCHANGED << apart, late_at, board, book, history, expired, pmpc, pm, nodes, stopped,
                  result, committed >>

(***************************************************************************)
(* play_move.                                                              *)
(***************************************************************************)
PmNone ==
  [moves |-> << >>, mi |-> 0, depth |-> 0, depth_best_move |-> NoMove,
   depth_best_eval |-> 0, best_move |-> NoMove, best_eval |-> 0]

NoResult == [move |-> "?", eval |-> 0]
NoCommit == [move |-> "?", eval |-> 0, depth |-> 0]

\* the locals at the head of an iteration of `for depth in 1..` (lines 445-450)
IterationStart(p, d, white) ==
  [p EXCEPT !.depth = d, !.mi = 0, !.depth_best_move = p.moves[1][1],
            !.depth_best_eval = IF white THEN NEG_INFINITY ELSE INFINITY]

\* (variant: the first root move is kept whatever the scores are)
RootScoreFirst(p, score, white) ==
  [p EXCEPT !.moves[p.mi + 1] = << p.moves[p.mi + 1][1], score >>,
            !.depth_best_eval = score]

\* a root move's score enters the iteration (lines 467-477)
RootScore(p, score, white) ==
  LET mv == p.moves[p.mi + 1][1]
      better == IF white THEN score > p.depth_best_eval ELSE score < p.depth_best_eval
  IN  [p EXCEPT !.moves[p.mi + 1] = << mv, score >>,
                !.depth_best_eval = IF better THEN score ELSE p.depth_best_eval,
                !.depth_best_move = IF better THEN mv ELSE p.depth_best_move]

\* (variant: the iteration's result is taken over even if it was interrupted)
CommitIterationAlways(p, st, white) ==
  [p EXCEPT !.best_move = p.depth_best_move, !.best_eval = p.depth_best_eval,
            !.moves = SortStable(p.moves, white)]

\* the iteration's result is taken over only if it completed (lines 481-490)
CommitIteration(p, st, white) ==
  IF ~st
  THEN [p EXCEPT !.best_move = p.depth_best_move, !.best_eval = p.depth_best_eval,
                 !.moves = SortStable(p.moves, white)]
  ELSE p

\* the call of search for the current root move (lines 453-461)
RootCall(p) ==
  Frame("search", make_move_new(board, p.moves[p.mi + 1][1]), NEG_INFINITY,
        INFINITY, p.depth - 1, TRUE, position_history)

\* (variant: a book move is returned with the static evaluation)
BookResultScored(p, book_moves) ==
  {[move |-> m.uci, eval |-> eval(p)] : m \in book_moves}

\* the book probe: any move of the entry, formatted, with score 0
\* (lines 404-414)
BookResult(p, book_moves) ==
  {[move |-> m.uci, eval |-> 0] : m \in book_moves}

\* (variant: the only legal move is returned with score 0)
RootResultUnscored(p, gen) ==
  IF Len(gen) = 0 THEN [move |-> "", eval |-> 0]
  ELSE [move |-> gen[1].uci, eval |-> 0]

\* no legal move, or exactly one (lines 420-426)
RootResult(p, gen) ==
  IF Len(gen) = 0 THEN [move |-> "", eval |-> 0]
  ELSE [move |-> gen[1].uci, eval |-> eval(p)]

\* (variant: best_move starts out unset)
RootInitUnset(gen) ==
  [PmNone EXCEPT !.moves = [i \in 1 .. Len(gen) |-> << gen[i], 0 >>]]

\* the root move list and the initial best move (lines 418, 433-434)
RootInit(gen) ==
  [PmNone EXCEPT !.moves = [i \in 1 .. Len(gen) |-> << gen[i], 0 >>],
                 !.best_move = gen[1], !.best_eval = 0]

\* play_move up to its first call of search (lines 400-461)
PlayMoveStart ==
  /\ pmpc = "start"
  /\ ev' = [EvNone EXCEPT !.op = "play_move"]
  /\ LET book_moves == book[board]
         gen == LegalMoves[board]
         white == WhiteToMove(board)
     IN  IF book_moves # {}
         THEN /\ result' \in BookResult(board, book_moves)
              /\ pmpc' = "done"
              /\ UNCHANGED << pm, transposition_table, position_history, nodes,
                              stopped, stack, committed >>
         ELSE IF Len(gen) <= 1
         THEN /\ result' = RootResult(board, gen)
              /\ pmpc' = "done"
              /\ UNCHANGED << pm, transposition_table, position_history, nodes,
                              stopped, stack, committed >>
         ELSE LET p0 == RootInit(gen)
                  p1 == IterationStart(p0, 1, white)
              IN  /\ transposition_table' = {}
                  /\ position_history' = history
                  /\ nodes' = 0
                  /\ stopped' = FALSE
                  /\ pm' = p1
                  /\ stack' = << [RootCall(p1) EXCEPT !.hist0 = history] >>
                  /\ pmpc' = "search"
                  /\ committed' = [move |-> gen[1].uci, eval |-> 0, depth |-> 0]
                  /\ UNCHANGED result
  /\ UNCHANGED << apart, late_at, board, book, history, expired, ret >>

\* play_move after a call of search has returned (lines 463-501)
PlayMoveReturn ==
  /\ pmpc = "search" /\ stack = << >>
  /\ ev' = [EvNone EXCEPT !.op = "play_move"]
  /\ LET white == WhiteToMove(board)
         p1 == RootScore(pm, ret, white)
         p2 == CommitIteration(IF stopped THEN pm ELSE p1, stopped, white)
         p3 == IterationStart(p2, p2.depth + 1, white)
     IN  IF ~stopped /\ pm.mi + 1 < Len(pm.moves)
         THEN /\ pm' = [p1 EXCEPT !.mi = pm.mi + 1]
              /\ stack' = << RootCall(pm') >>
              /\ UNCHANGED << pmpc, result, committed >>
         ELSE IF stopped \/ Abs(p2.best_eval) = MATE_EVAL
         THEN /\ pm' = p2
              /\ result' = [move |-> p2.best_move.uci, eval |-> p2.best_eval]
              /\ pmpc' = "done"
              /\ committed' = IF stopped THEN committed
                              ELSE [move |-> p1.depth_best_move.uci,
                                    eval |-> p1.depth_best_eval, depth |-> p1.depth]
              /\ UNCHANGED stack
         ELSE /\ committed' = [move |-> p1.depth_best_move.uci,
                               eval |-> p1.depth_best_eval, depth |-> p1.depth]
              /\ UNCHANGED result
              /\ IF p2.depth >= MaxDepth
                 THEN /\ pm' = p2
                      /\ pmpc' = "capped"
                      /\ UNCHANGED stack
                 ELSE /\ pm' = p3
                      /\ stack' = << RootCall(p3) >>
                      /\ UNCHANGED pmpc
  /\ UNCHANGED << apart, late_at, board, book, history, expired, transposition_table,
                  position_history, nodes, stopped, ret >>

\* the clock passes the time limit
TimePasses ==
  /\ ~expired /\ pmpc \in {"search", "direct"} /\ stack # << >>
  /\ expired' = TRUE
  /\ late_at' = nodes
  /\ ev' = [EvNone EXCEPT !.op = "clock"]
  /\ UNCHANGED << apart, board, book, history, pmpc, pm, transposition_table,
                  position_history, nodes, stopped, stack, ret, result, committed >>

(***************************************************************************)
(* Inputs.                                                                 *)
(***************************************************************************)
NoBook == [p \in Positions |-> {}]

\* set_position and eval are not running
\* (applied, skipped: moves applied and strings passed over so far; late:
\* the last string was applied after an earlier one had been passed over)
SpNone == [fen |-> 0, moves |-> << >>, i |-> 0, pc |-> "idle", applied |-> 0,
           skipped |-> 0, late |-> FALSE]
NoPieces == << >>
NoValue == [pc |-> "idle"]
\* the command loop and the book loader are not running
UciNone == [pc |-> "idle"]
LoaderNone == [pc |-> "idle"]

\* books with no entry, one move or two moves for the position
BookChoices(p) ==
  {NoBook}
  \cup (IF Len(LegalMoves[p]) >= 1
        THEN {[NoBook EXCEPT ![p] = {LegalMoves[p][1]}]} ELSE {})
  \cup (IF Len(LegalMoves[p]) >= 2
        THEN {[NoBook EXCEPT ![p] = {LegalMoves[p][1], LegalMoves[p][2]}]} ELSE {})

\* game histories ending in the position: a fresh game, and games in which
\* a position one move away has already occurred twice
HistoryChoices(p) ==
  {<< p >>}
  \cup {<< LegalMoves[p][i].to, p, LegalMoves[p][i].to, p >> :
          i \in 1 .. Min(1, Len(LegalMoves[p]))}

Init ==
  /\ board \in Positions
  /\ book \in BookChoices(board)
  /\ history \in HistoryChoices(board)
  /\ expired = FALSE
  /\ pmpc = "start"
  /\ pm = PmNone
  /\ transposition_table = {}
  /\ position_history = << >>
  /\ nodes = 0
  /\ stopped = FALSE
  /\ stack = << >>
  /\ ret = 0
  /\ result = NoResult
  /\ ev = EvNone
  /\ committed = NoCommit
  /\ late_at = 0
  /\ sp = SpNone
  /\ pieces = NoPieces
  /\ value = NoValue
  /\ uci = UciNone
  /\ loader = LoaderNone

Next ==
  \/ PlayMoveStart
  \/ PlayMoveReturn
  \/ SearchEnter
  \/ SearchQuiescenceReturn
  \/ SearchNullReturn
  \/ SearchLmrReturn
  \/ SearchFullReturn
  \/ QuiescenceEnter
  \/ QuiescenceReturn
  \/ TimePasses

Spec == Init /\ [][Next]_vars

\* play_move is one sequential call: whenever it has a next step it takes it.
\* This is weak fairness of the steps of play_move, search and quiescence,
\* written out: they are enabled exactly while play_move runs, and they are
\* the steps other than the clock's.  Nothing is assumed about the clock.
Running == pmpc \in {"start", "search"}
EngineStep == ev'.op # "clock"
FairSpec == Spec /\ ([]<>(~Running) \/ []<><<EngineStep>>_vars)

(***************************************************************************)
(* search called directly on a fresh SearchState with the full window,     *)
(* with and without leave to try a null move.                              *)
(***************************************************************************)
InitSearch ==
  /\ board \in Positions
  /\ book = NoBook
  /\ history \in HistoryChoices(board)
  /\ expired = FALSE
  /\ pmpc = "direct"
  /\ \E d \in 0 .. MaxSearchDepth : pm = [PmNone EXCEPT !.depth = d]
  /\ transposition_table = {}
  /\ position_history = history
  /\ nodes = 0
  /\ stopped = FALSE
  /\ \E allow_null \in BOOLEAN :
       stack = << Frame("search", board, NEG_INFINITY, INFINITY, pm.depth,
                        allow_null, history) >>
  /\ ret = 0
  /\ result = NoResult
  /\ ev = EvNone
  /\ committed = NoCommit
  /\ late_at = 0
  /\ sp = SpNone
  /\ pieces = NoPieces
  /\ value = NoValue
  /\ uci = UciNone
  /\ loader = LoaderNone

NextSearch ==
  \/ SearchEnter
  \/ SearchQuiescenceReturn
  \/ SearchNullReturn
  \/ SearchLmrReturn
  \/ SearchFullReturn
  \/ QuiescenceEnter
  \/ QuiescenceReturn
  \/ TimePasses

SpecSearch == InitSearch /\ [][NextSearch]_vars

(***************************************************************************)
(* evaluation.rs on boards given square by square.  A square is a number   *)
(* 0..63 (a1 = 0, h1 = 7, a8 = 56); a board gives every square a letter    *)
(* ("." empty, upper case White, lower case Black) and the side to move.   *)
(* eval returns an f64, base + 10 * ln(num / den) with integers base, num  *)
(* and den: the model keeps the three integers.                            *)
(***************************************************************************)
KING_VAL == 20000
QUEEN_VAL == 900
ROOK_VAL == 500
BISHOP_VAL == 330
KNIGHT_VAL == 320
PAWN_VAL == 100
ENDGAME_THRESHOLD == 2000

WHITE_PAWN_TABLE ==
  <<
    0, 0, 0, 0, 0, 0, 0, 0,
    5, 10, 10, 0 - 20, 0 - 20, 10, 10, 5,
    5, 0 - 5, 0 - 10, 0, 0, 0 - 10, 0 - 5, 5,
    0, 0, 0, 20, 20, 0, 0, 0,
    5, 5, 10, 25, 25, 10, 5, 5,
    10, 10, 20, 30, 30, 20, 10, 10,
    50, 50, 50, 50, 50, 50, 50, 50,
    0, 0, 0, 0, 0, 0, 0, 0
  >>

BLACK_PAWN_TABLE ==
  <<
    0, 0, 0, 0, 0, 0, 0, 0,
    50, 50, 50, 50, 50, 50, 50, 50,
    10, 10, 20, 30, 30, 20, 10, 10,
    5, 5, 10, 25, 25, 10, 5, 5,
    0, 0, 0, 20, 20, 0, 0, 0,
    5, 0 - 5, 0 - 10, 0, 0, 0 - 10, 0 - 5, 5,
    5, 10, 10, 0 - 20, 0 - 20, 10, 10, 5,
    0, 0, 0, 0, 0, 0, 0, 0
  >>

WHITE_KNIGHT_TABLE ==
  <<
    0 - 50, 0 - 40, 0 - 30, 0 - 30, 0 - 30, 0 - 30, 0 - 40, 0 - 50,
    0 - 40, 0 - 20, 0, 5, 5, 0, 0 - 20, 0 - 40,
    0 - 30, 5, 10, 15, 15, 10, 5, 0 - 30,
    0 - 30, 0, 15, 20, 20, 15, 0, 0 - 30,
    0 - 30, 5, 15, 20, 20, 15, 5, 0 - 30,
    0 - 30, 0, 10, 15, 15, 10, 0, 0 - 30,
    0 - 40, 0 - 20, 0, 0, 0, 0, 0 - 20, 0 - 40,
    0 - 50, 0 - 40, 0 - 30, 0 - 30, 0 - 30, 0 - 30, 0 - 40, 0 - 50
  >>

BLACK_KNIGHT_TABLE ==
  <<
    0 - 50, 0 - 40, 0 - 30, 0 - 30, 0 - 30, 0 - 30, 0 - 40, 0 - 50,
    0 - 40, 0 - 20, 0, 0, 0, 0, 0 - 20, 0 - 40,
    0 - 30, 0, 10, 15, 15, 10, 0, 0 - 30,
    0 - 30, 5, 15, 20, 20, 15, 5, 0 - 30,
    0 - 30, 0, 15, 20, 20, 15, 0, 0 - 30,
    0 - 30, 0, 10, 15, 15, 10, 0, 0 - 30,
    0 - 40, 0 - 20, 0, 5, 5, 0, 0 - 20, 0 - 40,
    0 - 50, 0 - 40, 0 - 30, 0 - 30, 0 - 30, 0 - 30, 0 - 40, 0 - 50
  >>

WHITE_BISHOP_TABLE ==
  <<
    0 - 20, 0 - 10, 0 - 10, 0 - 10, 0 - 10, 0 - 10, 0 - 10, 0 - 20,
    0 - 10, 5, 0, 0, 0, 0, 5, 0 - 10,
    0 - 10, 10, 10, 10, 10, 10, 10, 0 - 10,
    0 - 10, 0, 10, 10, 10, 10, 0, 0 - 10,
    0 - 10, 5, 5, 10, 10, 5, 5, 0 - 10,
    0 - 10, 0, 5, 10, 10, 5, 0, 0 - 10,
    0 - 10, 0, 0, 0, 0, 0, 0, 0 - 10,
    0 - 20, 0 - 10, 0 - 10, 0 - 10, 0 - 10, 0 - 10, 0 - 10, 0 - 20
  >>

BLACK_BISHOP_TABLE ==
  <<
    0 - 20, 0 - 10, 0 - 10, 0 - 10, 0 - 10, 0 - 10, 0 - 10, 0 - 20,
    0 - 10, 0, 0, 0, 0, 0, 0, 0 - 10,
    0 - 10, 0, 5, 10, 10, 5, 0, 0 - 10,
    0 - 10, 5, 5, 10, 10, 5, 5, 0 - 10,
    0 - 10, 0, 10, 10, 10, 10, 0, 0 - 10,
    0 - 10, 10, 10, 10, 10, 10, 10, 0 - 10,
    0 - 10, 5, 0, 0, 0, 0, 5, 0 - 10,
    0 - 20, 0 - 10, 0 - 10, 0 - 10, 0 - 10, 0 - 10, 0 - 10, 0 - 20
  >>

WHITE_ROOK_TABLE ==
  <<
    0, 0, 0, 5, 5, 0, 0, 0,
    0 - 5, 0, 0, 0, 0, 0, 0, 0 - 5,
    0 - 5, 0, 0, 0, 0, 0, 0, 0 - 5,
    0 - 5, 0, 0, 0, 0, 0, 0, 0 - 5,
    0 - 5, 0, 0, 0, 0, 0, 0, 0 - 5,
    0 - 5, 0, 0, 0, 0, 0, 0, 0 - 5,
    5, 10, 10, 10, 10, 10, 10, 5,
    0, 0, 0, 0, 0, 0, 0, 0
  >>

BLACK_ROOK_TABLE ==
  <<
    0, 0, 0, 0, 0, 0, 0, 0,
    5, 10, 10, 10, 10, 10, 10, 5,
    0 - 5, 0, 0, 0, 0, 0, 0, 0 - 5,
    0 - 5, 0, 0, 0, 0, 0, 0, 0 - 5,
    0 - 5, 0, 0, 0, 0, 0, 0, 0 - 5,
    0 - 5, 0, 0, 0, 0, 0, 0, 0 - 5,
    0 - 5, 0, 0, 0, 0, 0, 0, 0 - 5,
    0, 0, 0, 5, 5, 0, 0, 0
  >>

WHITE_QUEEN_TABLE ==
  <<
    0 - 20, 0 - 10, 0 - 10, 0 - 5, 0 - 5, 0 - 10, 0 - 10, 0 - 20,
    0 - 10, 0, 5, 0, 0, 0, 0, 0 - 10,
    0 - 10, 5, 5, 5, 5, 5, 0, 0 - 10,
    0, 0, 5, 5, 5, 5, 0, 0 - 5,
    0 - 5, 0, 5, 5, 5, 5, 0, 0 - 5,
    0 - 10, 0, 5, 5, 5, 5, 0, 0 - 10,
    0 - 10, 0, 0, 0, 0, 0, 0, 0 - 10,
    0 - 20, 0 - 10, 0 - 10, 0 - 5, 0 - 5, 0 - 10, 0 - 10, 0 - 20
  >>

BLACK_QUEEN_TABLE ==
  <<
    0 - 20, 0 - 10, 0 - 10, 0 - 5, 0 - 5, 0 - 10, 0 - 10, 0 - 20,
    0 - 10, 0, 0, 0, 0, 0, 0, 0 - 10,
    0 - 10, 0, 5, 5, 5, 5, 0, 0 - 10,
    0 - 5, 0, 5, 5, 5, 5, 0, 0 - 5,
    0, 0, 5, 5, 5, 5, 0, 0 - 5,
    0 - 10, 5, 5, 5, 5, 5, 0, 0 - 10,
    0 - 10, 0, 5, 0, 0, 0, 0, 0 - 10,
    0 - 20, 0 - 10, 0 - 10, 0 - 5, 0 - 5, 0 - 10, 0 - 10, 0 - 20
  >>

WHITE_KING_MG_TABLE ==
  <<
    20, 30, 10, 0, 0, 10, 30, 20,
    20, 20, 0, 0, 0, 0, 20, 20,
    0 - 10, 0 - 20, 0 - 20, 0 - 20, 0 - 20, 0 - 20, 0 - 20, 0 - 10,
    0 - 20, 0 - 30, 0 - 30, 0 - 40, 0 - 40, 0 - 30, 0 - 30, 0 - 20,
    0 - 30, 0 - 40, 0 - 40, 0 - 50, 0 - 50, 0 - 40, 0 - 40, 0 - 30,
    0 - 30, 0 - 40, 0 - 40, 0 - 50, 0 - 50, 0 - 40, 0 - 40, 0 - 30,
    0 - 30, 0 - 40, 0 - 40, 0 - 50, 0 - 50, 0 - 40, 0 - 40, 0 - 30,
    0 - 30, 0 - 40, 0 - 40, 0 - 50, 0 - 50, 0 - 40, 0 - 40, 0 - 30
  >>

BLACK_KING_MG_TABLE ==
  <<
    0 - 30, 0 - 40, 0 - 40, 0 - 50, 0 - 50, 0 - 40, 0 - 40, 0 - 30,
    0 - 30, 0 - 40, 0 - 40, 0 - 50, 0 - 50, 0 - 40, 0 - 40, 0 - 30,
    0 - 30, 0 - 40, 0 - 40, 0 - 50, 0 - 50, 0 - 40, 0 - 40, 0 - 30,
    0 - 30, 0 - 40, 0 - 40, 0 - 50, 0 - 50, 0 - 40, 0 - 40, 0 - 30,
    0 - 20, 0 - 30, 0 - 30, 0 - 40, 0 - 40, 0 - 30, 0 - 30, 0 - 20,
    0 - 10, 0 - 20, 0 - 20, 0 - 20, 0 - 20, 0 - 20, 0 - 20, 0 - 10,
    20, 20, 0, 0, 0, 0, 20, 20,
    20, 30, 10, 0, 0, 10, 30, 20
  >>

WHITE_KING_EG_TABLE ==
  <<
    0 - 50, 0 - 30, 0 - 30, 0 - 30, 0 - 30, 0 - 30, 0 - 30, 0 - 50,
    0 - 30, 0 - 30, 0, 0, 0, 0, 0 - 30, 0 - 30,
    0 - 30, 0 - 10, 20, 30, 30, 20, 0 - 10, 0 - 30,
    0 - 30, 0 - 10, 30, 40, 40, 30, 0 - 10, 0 - 30,
    0 - 30, 0 - 10, 30, 40, 40, 30, 0 - 10, 0 - 30,
    0 - 30, 0 - 10, 20, 30, 30, 20, 0 - 10, 0 - 30,
    0 - 30, 0 - 20, 0 - 10, 0, 0, 0 - 10, 0 - 20, 0 - 30,
    0 - 50, 0 - 40, 0 - 30, 0 - 20, 0 - 20, 0 - 30, 0 - 40, 0 - 50
  >>

BLACK_KING_EG_TABLE ==
  <<
    0 - 50, 0 - 40, 0 - 30, 0 - 20, 0 - 20, 0 - 30, 0 - 40, 0 - 50,
    0 - 30, 0 - 20, 0 - 10, 0, 0, 0 - 10, 0 - 20, 0 - 30,
    0 - 30, 0 - 10, 20, 30, 30, 20, 0 - 10, 0 - 30,
    0 - 30, 0 - 10, 30, 40, 40, 30, 0 - 10, 0 - 30,
    0 - 30, 0 - 10, 30, 40, 40, 30, 0 - 10, 0 - 30,
    0 - 30, 0 - 10, 20, 30, 30, 20, 0 - 10, 0 - 30,
    0 - 30, 0 - 30, 0, 0, 0, 0, 0 - 30, 0 - 30,
    0 - 50, 0 - 30, 0 - 30, 0 - 30, 0 - 30, 0 - 30, 0 - 30, 0 - 50
  >>

Squares == 0 .. 63
FileOf(s) == s % 8
RankOf(s) == s \div 8
Sq(f, r) == r * 8 + f

Kinds == {"P", "N", "B", "R", "Q", "K"}

Letter(kind, color) ==
  IF color = "w" THEN kind
  ELSE CASE kind = "P" -> "p" [] kind = "N" -> "n" [] kind = "B" -> "b"
         [] kind = "R" -> "r" [] kind = "Q" -> "q" [] kind = "K" -> "k"

Other(color) == IF color = "w" THEN "b" ELSE "w"

\* *board.pieces(piece) & *board.color_combined(color)
PiecesOf(b, kind, color) == {s \in Squares : b.sq[s + 1] = Letter(kind, color)}

\* *board.color_combined(color)
color_combined(b, color) == UNION {PiecesOf(b, kind, color) : kind \in Kinds}

\* *board.combined()
combined(b) == {s \in Squares : b.sq[s + 1] # "."}

\* board.king_square(color)
king_square(b, color) == CHOOSE s \in PiecesOf(b, "K", color) : TRUE

\* the squares a step d = <<files, ranks>> away from s, for the steps in D
Offsets(s, D) ==
  {Sq(FileOf(s) + d[1], RankOf(s) + d[2]) :
     d \in {e \in D : /\ FileOf(s) + e[1] \in 0 .. 7
                      /\ RankOf(s) + e[2] \in 0 .. 7}}

Near == (0 - 1) .. 1
Far == (0 - 2) .. 2

\* chess::get_knight_moves, chess::get_king_moves
get_knight_moves(s) ==
  Offsets(s, {e \in Far \X Far : e[1] * e[1] + e[2] * e[2] = 5})
get_king_moves(s) ==
  Offsets(s, {e \in Near \X Near : e # << 0, 0 >>})

\* the squares from (f, r) in direction d up to and including the first
\* occupied one
RECURSIVE Ray(_, _, _, _)
Ray(occ, f, r, d) ==
  IF f + d[1] \notin 0 .. 7 \/ r + d[2] \notin 0 .. 7 THEN {}
  ELSE {Sq(f + d[1], r + d[2])}
       \cup (IF Sq(f + d[1], r + d[2]) \in occ THEN {}
             ELSE Ray(occ, f + d[1], r + d[2], d))

\* chess::get_bishop_moves, chess::get_rook_moves
get_bishop_moves(s, occ) ==
  UNION {Ray(occ, FileOf(s), RankOf(s), d) :
           d \in {e \in Near \X Near : e[1] # 0 /\ e[2] # 0}}
get_rook_moves(s, occ) ==
  UNION {Ray(occ, FileOf(s), RankOf(s), d) :
           d \in {e \in Near \X Near : (e[1] = 0) # (e[2] = 0)}}

\* the two squares a pawn attacks
PawnSteps(color) ==
  IF color = "w" THEN {<< 0 - 1, 1 >>, << 1, 1 >>}
  ELSE {<< 0 - 1, 0 - 1 >>, << 1, 0 - 1 >>}

\* chess::get_pawn_attacks(sq, color, blockers)
get_pawn_attacks(s, color, blockers) == Offsets(s, PawnSteps(color)) \cap blockers

RECURSIVE Sum(_, _)
Sum(f, S) ==
  IF S = {} THEN 0
  ELSE LET x == CHOOSE y \in S : TRUE IN f[x] + Sum(f, S \ {x})

\* count_bits
count_bits(bb) == Cardinality(bb)

(***************************************************************************)
(* board.status(): the rules library decides it from the legal moves of    *)
(* the side to move.  Castling and en passant are left out: castling is    *)
(* never the only legal move, and the boards below have no en passant      *)
(* square.                                                                 *)
(***************************************************************************)
\* the squares the piece on s attacks
AttacksFrom(b, s) ==
  LET x == b.sq[s + 1]
  IN  CASE x \in {"P", "p"} -> Offsets(s, PawnSteps(IF x = "P" THEN "w" ELSE "b"))
        [] x \in {"N", "n"} -> get_knight_moves(s)
        [] x \in {"B", "b"} -> get_bishop_moves(s, combined(b))
        [] x \in {"R", "r"} -> get_rook_moves(s, combined(b))
        [] x \in {"Q", "q"} -> get_bishop_moves(s, combined(b))
                               \cup get_rook_moves(s, combined(b))
        [] x \in {"K", "k"} -> get_king_moves(s)
        [] OTHER -> {}

\* the king of `color` is attacked
KingAttacked(b, color) ==
  \E s \in color_combined(b, Other(color)) : king_square(b, color) \in AttacksFrom(b, s)

\* the squares the pawn on s can advance to
PawnPushes(b, s, color) ==
  LET dir == IF color = "w" THEN 1 ELSE 0 - 1
      home == IF color = "w" THEN 1 ELSE 6
      one == s + 8 * dir
      two == s + 16 * dir
  IN  IF one \notin Squares \/ one \in combined(b) THEN {}
      ELSE {one} \cup (IF RankOf(s) = home /\ two \notin combined(b) THEN {two} ELSE {})

\* the squares the piece on s can go to, its own king's safety aside
Targets(b, s, color) ==
  IF b.sq[s + 1] \in {"P", "p"}
  THEN PawnPushes(b, s, color)
       \cup (AttacksFrom(b, s) \cap color_combined(b, Other(color)))
  ELSE AttacksFrom(b, s) \ color_combined(b, color)

\* the board with the piece on s moved to t
After(b, s, t) ==
  [b EXCEPT !.sq = [i \in 1 .. 64 |-> IF i = t + 1 THEN b.sq[s + 1]
                                      ELSE IF i = s + 1 THEN "." ELSE b.sq[i]]]

HasLegalMove(b) ==
  \E s \in color_combined(b, b.stm) :
    \E t \in Targets(b, s, b.stm) : ~KingAttacked(After(b, s, t), b.stm)

\* board.status()
status(b) ==
  IF HasLegalMove(b) THEN "Ongoing"
  ELSE IF KingAttacked(b, b.stm) THEN "Checkmate" ELSE "Stalemate"

(***************************************************************************)
(* The evaluator.                                                          *)
(***************************************************************************)
piece_value(kind) ==
  CASE kind = "P" -> PAWN_VAL [] kind = "N" -> KNIGHT_VAL
    [] kind = "B" -> BISHOP_VAL [] kind = "R" -> ROOK_VAL
    [] kind = "Q" -> QUEEN_VAL [] kind = "K" -> KING_VAL

\* (variant: both colours read White's tables at the same index)
piece_square_valueWhite(kind, color, s, is_endgame) ==
  CASE kind = "P" -> WHITE_PAWN_TABLE[s + 1]
    [] kind = "N" -> WHITE_KNIGHT_TABLE[s + 1]
    [] kind = "B" -> WHITE_BISHOP_TABLE[s + 1]
    [] kind = "R" -> WHITE_ROOK_TABLE[s + 1]
    [] kind = "Q" -> WHITE_QUEEN_TABLE[s + 1]
    [] kind = "K" -> IF is_endgame THEN WHITE_KING_EG_TABLE[s + 1]
                     ELSE WHITE_KING_MG_TABLE[s + 1]

piece_square_value(kind, color, s, is_endgame) ==
  CASE kind = "P" -> IF color = "w" THEN WHITE_PAWN_TABLE[s + 1]
                     ELSE BLACK_PAWN_TABLE[s + 1]
    [] kind = "N" -> IF color = "w" THEN WHITE_KNIGHT_TABLE[s + 1]
                     ELSE BLACK_KNIGHT_TABLE[s + 1]
    [] kind = "B" -> IF color = "w" THEN WHITE_BISHOP_TABLE[s + 1]
                     ELSE BLACK_BISHOP_TABLE[s + 1]
    [] kind = "R" -> IF color = "w" THEN WHITE_ROOK_TABLE[s + 1]
                     ELSE BLACK_ROOK_TABLE[s + 1]
    [] kind = "Q" -> IF color = "w" THEN WHITE_QUEEN_TABLE[s + 1]
                     ELSE BLACK_QUEEN_TABLE[s + 1]
    [] kind = "K" ->
         IF is_endgame
         THEN (IF color = "w" THEN WHITE_KING_EG_TABLE[s + 1]
               ELSE BLACK_KING_EG_TABLE[s + 1])
         ELSE (IF color = "w" THEN WHITE_KING_MG_TABLE[s + 1]
               ELSE BLACK_KING_MG_TABLE[s + 1])

is_insufficient_material(b) ==
  \/ Cardinality(combined(b)) = 2
  \/ /\ Cardinality(combined(b)) = 3
     /\ \/ Cardinality(PiecesOf(b, "N", "w") \cup PiecesOf(b, "N", "b")) = 1
        \/ Cardinality(PiecesOf(b, "B", "w") \cup PiecesOf(b, "B", "b")) = 1

\* (variant: the side to move wins when it is checkmated)
has_game_endedSwapped(b) ==
  LET st == status(b)
  IN  IF st = "Checkmate"
      THEN (IF b.stm = "w" THEN "WhiteWins" ELSE "BlackWins")
      ELSE IF st = "Stalemate" THEN "Draw"
      ELSE IF is_insufficient_material(b) THEN "Draw" ELSE "Ongoing"

has_game_ended(b) ==
  LET st == status(b)
  IN  IF st = "Checkmate"
      THEN (IF b.stm = "w" THEN "BlackWins" ELSE "WhiteWins")
      ELSE IF st = "Stalemate" THEN "Draw"
      ELSE IF is_insufficient_material(b) THEN "Draw" ELSE "Ongoing"

calculate_material(b, color) ==
  Sum([kind \in Kinds \ {"K"} |->
         Cardinality(PiecesOf(b, kind, color)) * piece_value(kind)],
      Kinds \ {"K"})

\* material and piece-square values of one side (the king counts 0)
SideMaterial(b, color, is_endgame) ==
  Sum([kind \in Kinds |->
         Sum([s \in PiecesOf(b, kind, color) |->
                (IF kind = "K" THEN 0 ELSE piece_value(kind))
                + piece_square_value(kind, color, s, is_endgame)],
             PiecesOf(b, kind, color))],
      Kinds)

calculate_mobility(b, color) ==
  LET occ == combined(b)
  IN  Sum([s \in PiecesOf(b, "P", color) |->
             count_bits(get_pawn_attacks(s, color, occ))], PiecesOf(b, "P", color))
      + Sum([s \in PiecesOf(b, "N", color) |->
               count_bits(get_knight_moves(s))], PiecesOf(b, "N", color))
      + Sum([s \in PiecesOf(b, "B", color) |->
               count_bits(get_bishop_moves(s, occ))], PiecesOf(b, "B", color))
      + Sum([s \in PiecesOf(b, "R", color) |->
               count_bits(get_rook_moves(s, occ))], PiecesOf(b, "R", color))
      + Sum([s \in PiecesOf(b, "Q", color) |->
               count_bits(get_bishop_moves(s, occ) \cup get_rook_moves(s, occ))],
            PiecesOf(b, "Q", color))
      + count_bits(get_king_moves(king_square(b, color)))

\* file_mask(file) & pawns
OnFile(S, f) == {s \in S : FileOf(s) = f}

king_safety(b, color, is_endgame) ==
  IF is_endgame THEN 0
  ELSE
    LET king_sq == king_square(b, color)
        king_file == FileOf(king_sq)
        enemy == Other(color)
        our_pawns == PiecesOf(b, "P", color)
        their_pawns == PiecesOf(b, "P", enemy)
        shield_rank_1 == IF color = "w" THEN 1 ELSE 6
        shield_rank_2 == IF color = "w" THEN 2 ELSE 5
        files == Max(king_file - 1, 0) .. Min(king_file + 1, 7)
        shelter ==
          [f \in files |->
             IF OnFile(our_pawns, f) = {}
             THEN (0 - 15) + (IF OnFile(their_pawns, f) = {} THEN 0 - 10 ELSE 0)
             ELSE IF Sq(f, shield_rank_1) \in our_pawns THEN 10
             ELSE IF Sq(f, shield_rank_2) \in our_pawns THEN 5
             ELSE 0]
        king_zone == get_king_moves(king_sq) \cup {king_sq}
        occupied == combined(b)
        knights == {s \in PiecesOf(b, "N", enemy) :
                      get_knight_moves(s) \cap king_zone # {}}
        bishops == {s \in PiecesOf(b, "B", enemy) :
                      get_bishop_moves(s, occupied) \cap king_zone # {}}
        rooks == {s \in PiecesOf(b, "R", enemy) :
                    get_rook_moves(s, occupied) \cap king_zone # {}}
        queens == {s \in PiecesOf(b, "Q", enemy) :
                     (get_bishop_moves(s, occupied) \cup get_rook_moves(s, occupied))
                       \cap king_zone # {}}
    IN  Sum(shelter, files)
        - 10 * Cardinality(knights) - 10 * Cardinality(bishops)
        - 15 * Cardinality(rooks) - 25 * Cardinality(queens)

\* base + 10 * ln(num / den)
Score(base, num, den) == [base |-> base, num |-> num, den |-> den]

\* eval on a board given square by square
EvalBoard(b) ==
  LET ended == has_game_ended(b)
  IN  IF ended = "WhiteWins" THEN Score(MATE_EVAL, 1, 1)
      ELSE IF ended = "BlackWins" THEN Score(0 - MATE_EVAL, 1, 1)
      ELSE IF ended = "Draw" THEN Score(0, 1, 1)
      ELSE
        LET is_endgame == /\ calculate_material(b, "w") < ENDGAME_THRESHOLD
                          /\ calculate_material(b, "b") < ENDGAME_THRESHOLD
            white_material == SideMaterial(b, "w", is_endgame)
            black_material == SideMaterial(b, "b", is_endgame)
            white_influence == calculate_mobility(b, "w")
            black_influence == calculate_mobility(b, "b")
            king_safety_score ==
              IF ~is_endgame
              THEN king_safety(b, "w", is_endgame) - king_safety(b, "b", is_endgame)
              ELSE 0
            base == white_material - black_material + king_safety_score
        IN  IF black_influence > 0 THEN Score(base, white_influence, black_influence)
            ELSE IF white_influence > 0 THEN Score(base, 10, 1)
            ELSE Score(base, 1, 1)

(***************************************************************************)
(* Boards eval is run on.                                                  *)
(***************************************************************************)
\* Board::default()
\* rnbqkbnr/pppppppp/8/8/8/8/PPPPPPPP/RNBQKBNR w KQkq - 0 1
StartBoard ==
  [sq |-> <<
     "R", "N", "B", "Q", "K", "B", "N", "R",
     "P", "P", "P", "P", "P", "P", "P", "P",
     ".", ".", ".", ".", ".", ".", ".", ".",
     ".", ".", ".", ".", ".", ".", ".", ".",
     ".", ".", ".", ".", ".", ".", ".", ".",
     ".", ".", ".", ".", ".", ".", ".", ".",
     "p", "p", "p", "p", "p", "p", "p", "p",
     "r", "n", "b", "q", "k", "b", "n", "r" >>,
   stm |-> "w"]

\* the position of tests::test_checkmate_eval: Black is checkmated
\* r1bqkb1r/pppp1Qpp/2n2n2/4p3/2B1P3/8/PPPP1PPP/RNB1K1NR b KQkq - 0 4
ScholarsMate ==
  [sq |-> <<
     "R", "N", "B", ".", "K", ".", "N", "R",
     "P", "P", "P", "P", ".", "P", "P", "P",
     ".", ".", ".", ".", ".", ".", ".", ".",
     ".", ".", "B", ".", "P", ".", ".", ".",
     ".", ".", ".", ".", "p", ".", ".", ".",
     ".", ".", "n", ".", ".", "n", ".", ".",
     "p", "p", "p", "p", ".", "Q", "p", "p",
     "r", ".", "b", "q", "k", "b", ".", "r" >>,
   stm |-> "b"]

\* White is checkmated
\* rnb1kbnr/pppp1ppp/8/4p3/6Pq/5P2/PPPPP2P/RNBQKBNR w KQkq - 1 3
FoolsMate ==
  [sq |-> <<
     "R", "N", "B", "Q", "K", "B", "N", "R",
     "P", "P", "P", "P", "P", ".", ".", "P",
     ".", ".", ".", ".", ".", "P", ".", ".",
     ".", ".", ".", ".", ".", ".", "P", "q",
     ".", ".", ".", ".", "p", ".", ".", ".",
     ".", ".", ".", ".", ".", ".", ".", ".",
     "p", "p", "p", "p", ".", "p", "p", "p",
     "r", "n", "b", ".", "k", "b", "n", "r" >>,
   stm |-> "w"]

\* an ending: kings and one pawn each
\* 4k3/4p3/8/8/8/8/4P3/4K3 w - - 0 1
KingsAndPawns ==
  [sq |-> <<
     ".", ".", ".", ".", "K", ".", ".", ".",
     ".", ".", ".", ".", "P", ".", ".", ".",
     ".", ".", ".", ".", ".", ".", ".", ".",
     ".", ".", ".", ".", ".", ".", ".", ".",
     ".", ".", ".", ".", ".", ".", ".", ".",
     ".", ".", ".", ".", ".", ".", ".", ".",
     ".", ".", ".", ".", "p", ".", ".", ".",
     ".", ".", ".", ".", "k", ".", ".", "." >>,
   stm |-> "w"]

\* king against king
\* 7k/8/6K1/8/8/8/8/8 w - - 0 1
CornerKings ==
  [sq |-> <<
     ".", ".", ".", ".", ".", ".", ".", ".",
     ".", ".", ".", ".", ".", ".", ".", ".",
     ".", ".", ".", ".", ".", ".", ".", ".",
     ".", ".", ".", ".", ".", ".", ".", ".",
     ".", ".", ".", ".", ".", ".", ".", ".",
     ".", ".", ".", ".", ".", ".", "K", ".",
     ".", ".", ".", ".", ".", ".", ".", ".",
     ".", ".", ".", ".", ".", ".", ".", "k" >>,
   stm |-> "w"]

Put(b, s, x) == [b EXCEPT !.sq[s + 1] = x]
ToMove(b, color) == [b EXCEPT !.stm = color]

SwapColor(x) ==
  CASE x = "P" -> "p" [] x = "N" -> "n" [] x = "B" -> "b" [] x = "R" -> "r"
    [] x = "Q" -> "q" [] x = "K" -> "k" [] x = "p" -> "P" [] x = "n" -> "N"
    [] x = "b" -> "B" [] x = "r" -> "R" [] x = "q" -> "Q" [] x = "k" -> "K"
    [] OTHER -> "."

\* the square on the same file with the ranks mirrored
MirrorSq(s) == Sq(FileOf(s), 7 - RankOf(s))

\* the colour reflection of a board: colours swapped, ranks mirrored, the
\* other side to move
Reflect(b) ==
  [sq |-> [i \in 1 .. 64 |-> SwapColor(b.sq[MirrorSq(i - 1) + 1])],
   stm |-> Other(b.stm)]

\* the rules library accepts the board: the side that has just moved is not
\* in check, no pawn stands on the first or last rank
Sane(b) ==
  /\ ~KingAttacked(b, Other(b.stm))
  /\ \A s \in PiecesOf(b, "P", "w") \cup PiecesOf(b, "P", "b") : RankOf(s) \in 1 .. 6

\* the four middle ranks
MiddleSquares == {s \in Squares : RankOf(s) \in 2 .. 5}

\* king against king and one more white piece anywhere
ThreePieceBoards ==
  {CornerKings}
  \cup {Put(CornerKings, s, x) :
          s \in {t \in Squares : CornerKings.sq[t + 1] = "."},
          x \in {"Q", "R", "B", "N", "P"}}

\* the ending with a white knight or bishop on the middle ranks
MinorPieceBoards ==
  {Put(KingsAndPawns, s, x) : s \in MiddleSquares, x \in {"N", "B"}}

\* the starting position with the knight of b1 on the middle ranks
KnightOutBoards ==
  {Put(Put(StartBoard, 1, "."), s, "N") : s \in MiddleSquares}

EvalBoards ==
  LET white == {StartBoard, ScholarsMate, FoolsMate, KingsAndPawns}
               \cup ThreePieceBoards \cup MinorPieceBoards \cup KnightOutBoards
      either == white \cup {ToMove(b, Other(b.stm)) : b \in white}
  IN  {b \in either \cup {Reflect(c) : c \in either} : Sane(b)}

NoScore == Score(0, 0, 0)

\* eval(&board)
EvalCall ==
  /\ value.pc = "start"
  /\ value' = [pc |-> "done", score |-> EvalBoard(pieces), mirror |-> NoScore]
  /\ UNCHANGED << board, book, history, expired, pmpc, pm, transposition_table,
                  position_history, nodes, stopped, stack, ret, result, ev,
                  committed, late_at, sp, pieces, uci, loader >>

\* eval of the colour reflection of the same board
EvalReflected ==
  /\ value.pc = "done"
  /\ value' = [value EXCEPT !.pc = "both", !.mirror = EvalBoard(Reflect(pieces))]
  /\ UNCHANGED << board, book, history, expired, pmpc, pm, transposition_table,
                  position_history, nodes, stopped, stack, ret, result, ev,
                  committed, late_at, sp, pieces, uci, loader >>

InitEval ==
  /\ pieces \in EvalBoards
  /\ value = [pc |-> "start", score |-> NoScore, mirror |-> NoScore]
  /\ sp = SpNone
  /\ board = 0
  /\ history = << >>
  /\ book = NoBook
  /\ expired = FALSE
  /\ pmpc = "idle"
  /\ pm = PmNone
  /\ transposition_table = {}
  /\ position_history = << >>
  /\ nodes = 0
  /\ stopped = FALSE
  /\ stack = << >>
  /\ ret = 0
  /\ result = NoResult
  /\ ev = EvNone
  /\ committed = NoCommit
  /\ late_at = 0
  /\ uci = UciNone
  /\ loader = LoaderNone

NextEval ==
  \/ EvalCall
  \/ EvalReflected

SpecEval == InitEval /\ [][NextEval]_vars

(***************************************************************************)
(* set_position.  A move string is what the two parsers make of it: `form` *)
(* is "uci" if ChessMove::from_str accepts it (four or five characters,    *)
(* lower-case promotion letter), "loose" if only parse_uci_move can read   *)
(* it (e.g. an upper-case promotion letter), "junk" if neither can; `text` *)
(* is the move it spells.  A FEN is the position it describes, or 0 if     *)
(* Board::from_str rejects it.                                             *)
(***************************************************************************)
MoveStr(text, form) == [text |-> text, form |-> form]

MoveStrings ==
  {MoveStr("a", "uci"), MoveStr("b", "uci"), MoveStr("z", "uci"),
   MoveStr("b", "loose"), MoveStr("", "junk")}

Fens == {0, 1, 12, 19}

\* Board::default()
StartPos == 1

\* Board::from_str(fen).unwrap_or_default()
FromFen(fen) == IF fen \in Positions THEN fen ELSE StartPos

\* the legal moves of p that the string spells (at most one)
Spelled(p, text) ==
  {LegalMoves[p][i] : i \in {j \in 1 .. Len(LegalMoves[p]) :
                               LegalMoves[p][j].uci = text}}

\* parse_uci_move: the legal move with the string's squares and promotion
parse_uci_move(p, str) ==
  IF str.form = "junk" \/ Spelled(p, str.text) = {} THEN NoMove
  ELSE CHOOSE m \in Spelled(p, str.text) : TRUE

\* the move one pass of the loop applies, NoMove if it applies none
\* (lines 513-521)
MoveOf(p, str) ==
  IF str.form = "uci"
  THEN (IF Spelled(p, str.text) # {}
        THEN CHOOSE m \in Spelled(p, str.text) : TRUE ELSE NoMove)
  ELSE parse_uci_move(p, str)

\* (variant: the hash pushed is the one of the board before the move)
PushBefore(h, p, q) == Append(h, p)

\* history.push(board.get_hash()) after board = board.make_move_new(mv)
Push(h, p, q) == Append(h, q)

\* set_position up to the loop (lines 509-510)
SetPositionStart ==
  /\ sp.pc = "start"
  /\ board' = FromFen(sp.fen)
  /\ history' = << FromFen(sp.fen) >>
  /\ sp' = [sp EXCEPT !.pc = "loop"]
  /\ UNCHANGED << book, expired, pmpc, pm, transposition_table,
                  position_history, nodes, stopped, stack, ret, result, ev,
                  committed, late_at, pieces, value, uci, loader >>

\* one pass of `for move_str in moves` (lines 512-522)
SetPositionMove ==
  /\ sp.pc = "loop" /\ sp.i < Len(sp.moves)
  /\ LET mv == MoveOf(board, sp.moves[sp.i + 1])
     IN  IF mv # NoMove
         THEN /\ board' = make_move_new(board, mv)
              /\ history' = Push(history, board, make_move_new(board, mv))
              /\ sp' = [sp EXCEPT !.i = sp.i + 1, !.applied = sp.applied + 1,
                                  !.late = sp.skipped > 0]
         ELSE /\ sp' = [sp EXCEPT !.i = sp.i + 1, !.skipped = sp.skipped + 1,
                                  !.late = FALSE]
              /\ UNCHANGED << board, history >>
  /\ UNCHANGED << book, expired, pmpc, pm, transposition_table,
                  position_history, nodes, stopped, stack, ret, result, ev,
                  committed, late_at, pieces, value, uci, loader >>

\* `(board, history)` (line 524)
SetPositionReturn ==
  /\ sp.pc = "loop" /\ sp.i = Len(sp.moves)
  /\ sp' = [sp EXCEPT !.pc = "done"]
  /\ UNCHANGED << board, history, book, expired, pmpc, pm, transposition_table,
                  position_history, nodes, stopped, stack, ret, result, ev,
                  committed, late_at, pieces, value, uci, loader >>

RECURSIVE MoveLists(_)
MoveLists(n) ==
  IF n = 0 THEN {<< >>}
  ELSE MoveLists(n - 1)
       \cup {Append(l, x) : l \in {m \in MoveLists(n - 1) : Len(m) = n - 1},
                            x \in MoveStrings}

InitSetPosition ==
  /\ \E f \in Fens, l \in MoveLists(MaxMoves) :
       sp = [SpNone EXCEPT !.fen = f, !.moves = l, !.pc = "start"]
  /\ board = 0
  /\ history = << >>
  /\ book = NoBook
  /\ expired = FALSE
  /\ pmpc = "idle"
  /\ pm = PmNone
  /\ transposition_table = {}
  /\ position_history = << >>
  /\ nodes = 0
  /\ stopped = FALSE
  /\ stack = << >>
  /\ ret = 0
  /\ result = NoResult
  /\ ev = EvNone
  /\ committed = NoCommit
  /\ late_at = 0
  /\ pieces = NoPieces
  /\ value = NoValue
  /\ uci = UciNone
  /\ loader = LoaderNone

NextSetPosition ==
  \/ SetPositionStart
  \/ SetPositionMove
  \/ SetPositionReturn

SpecSetPosition == InitSetPosition /\ [][NextSetPosition]_vars

(***************************************************************************)
(* main.rs: the UCI front end.  A line is the sequence of its tokens       *)
(* (split_whitespace).  A token is a word, or a numeral given character by *)
(* character, so that str::parse::<i64> is computed from the characters.   *)
(* A String is the sequence of the pieces pushed onto it.  Seconds are     *)
(* fractions in lowest terms (the f64 quotients of the source are exact to *)
(* within rounding for every i64 below 2^53).                              *)
(***************************************************************************)
Word(w) == [word |-> w, chars |-> << >>]
Numeral(cs) == [word |-> "", chars |-> cs]
Space == Word(" ")

DigitChars == << "0", "1", "2", "3", "4", "5", "6", "7", "8", "9" >>
IsDigit(c) == \E i \in 1 .. 10 : DigitChars[i] = c
DigitValue(c) == (CHOOSE i \in 1 .. 10 : DigitChars[i] = c) - 1

RECURSIVE Decimal(_)
Decimal(cs) ==
  IF cs = << >> THEN 0
  ELSE 10 * Decimal(SubSeq(cs, 1, Len(cs) - 1)) + DigitValue(cs[Len(cs)])

None == [ok |-> FALSE, val |-> 0]
Some(v) == [ok |-> TRUE, val |-> v]
UnwrapOr(o, d) == IF o.ok THEN o.val ELSE d

\* str::parse::<i64>: an optional sign, then one or more decimal digits
ParseI64(tok) ==
  LET cs == tok.chars
      signed == cs # << >> /\ cs[1] \in {"+", "-"}
      digits == IF signed THEN Tail(cs) ELSE cs
  IN  IF tok.word # "" \/ digits = << >>
         \/ \E i \in 1 .. Len(digits) : ~IsDigit(digits[i])
      THEN None
      ELSE Some(IF signed /\ cs[1] = "-" THEN 0 - Decimal(digits)
                ELSE Decimal(digits))

RECURSIVE GCD(_, _)
GCD(a, b) == IF b = 0 THEN a ELSE GCD(b, a % b)

\* n / d seconds, d > 0
Seconds(n, d) ==
  LET g == GCD(Abs(n), d) IN [num |-> n \div g, den |-> d \div g]

\* f64::min
MinSeconds(s, t) == IF s.num * t.den <= t.num * s.den THEN s ELSE t

MAX_TIME_PER_MOVE == Seconds(5, 1)

\* tokens.iter().position(|&t| t == w), 0 for None
IndexOf(tokens, w) ==
  IF \E i \in 1 .. Len(tokens) : tokens[i] = Word(w)
  THEN CHOOSE i \in 1 .. Len(tokens) :
         tokens[i] = Word(w) /\ \A j \in 1 .. i - 1 : tokens[j] # Word(w)
  ELSE 0

\* (variant: the time bank is divided by 30 and the increment added whole)
parse_go_commandThirty(tokens, white) ==
  LET timed == /\ Len(tokens) >= 9
               /\ tokens[2] = Word("wtime") /\ tokens[4] = Word("btime")
               /\ tokens[6] = Word("winc") /\ tokens[8] = Word("binc")
      wtime == UnwrapOr(ParseI64(tokens[3]), 60000)
      btime == UnwrapOr(ParseI64(tokens[5]), 60000)
      winc == UnwrapOr(ParseI64(tokens[7]), 0)
      binc == UnwrapOr(ParseI64(tokens[9]), 0)
      banked == IF ~timed THEN Seconds(1, 1)
                ELSE IF white THEN Seconds(wtime + 30 * winc, 30000)
                ELSE Seconds(btime + 30 * binc, 30000)
      idx == IndexOf(tokens, "movetime")
      time_ms == IF idx # 0 /\ idx + 1 <= Len(tokens)
                 THEN ParseI64(tokens[idx + 1]) ELSE None
  IN  IF time_ms.ok THEN Seconds(time_ms.val, 1000) ELSE banked

\* parse_go_command(&tokens, &board); white is board.side_to_move() == White
parse_go_command(tokens, white) ==
  LET timed == /\ Len(tokens) >= 9
               /\ tokens[2] = Word("wtime") /\ tokens[4] = Word("btime")
               /\ tokens[6] = Word("winc") /\ tokens[8] = Word("binc")
      wtime == UnwrapOr(ParseI64(tokens[3]), 60000)
      btime == UnwrapOr(ParseI64(tokens[5]), 60000)
      winc == UnwrapOr(ParseI64(tokens[7]), 0)
      binc == UnwrapOr(ParseI64(tokens[9]), 0)
      banked == IF ~timed THEN Seconds(1, 1)
                ELSE IF white THEN Seconds(wtime + winc, 60000)
                ELSE Seconds(btime + binc, 60000)
      idx == IndexOf(tokens, "movetime")
      time_ms == IF idx # 0 /\ idx + 1 <= Len(tokens)
                 THEN ParseI64(tokens[idx + 1]) ELSE None
  IN  IF time_ms.ok THEN Seconds(time_ms.val, 1000) ELSE banked

\* START_POSITION
START_POSITION ==
  << Word("rnbqkbnr/pppppppp/8/8/8/8/PPPPPPPP/RNBQKBNR"), Space, Word("w"),
     Space, Word("KQkq"), Space, Word("-"), Space, Numeral(<< "0" >>), Space,
     Numeral(<< "1" >>) >>

\* (variant: a move is put in front of the ones read before it)
PositionTokenFront(st, token) ==
  IF token = Word("moves") THEN [st EXCEPT !.reading_fen = FALSE]
  ELSE IF st.reading_fen
  THEN [st EXCEPT !.fen = (IF st.fen # << >> THEN Append(st.fen, Space)
                           ELSE st.fen) \o << token >>]
  ELSE [st EXCEPT !.moves = << token >> \o st.moves]

\* one pass of `for token in tokens.iter().skip(start_idx)` (lines 127-141)
PositionToken(st, token) ==
  IF token = Word("moves") THEN [st EXCEPT !.reading_fen = FALSE]
  ELSE IF st.reading_fen
  THEN [st EXCEPT !.fen = (IF st.fen # << >> THEN Append(st.fen, Space)
                           ELSE st.fen) \o << token >>]
  ELSE [st EXCEPT !.moves = Append(st.moves, token)]

RECURSIVE PositionTokens(_, _, _)
PositionTokens(st, tokens, i) ==
  IF i > Len(tokens) THEN st
  ELSE PositionTokens(PositionToken(st, tokens[i]), tokens, i + 1)

\* parse_position_command(&tokens)
parse_position_command(tokens) ==
  IF Len(tokens) < 2 THEN [fen |-> START_POSITION, moves |-> << >>]
  ELSE LET startpos == tokens[2] = Word("startpos")
           st0 == [fen |-> IF startpos THEN START_POSITION ELSE << >>,
                   moves |-> << >>, reading_fen |-> ~startpos]
           start_idx == IF startpos \/ tokens[2] = Word("fen") THEN 2 ELSE 1
           st == PositionTokens(st0, tokens, start_idx + 1)
       IN  [fen |-> IF st.fen = << >> THEN START_POSITION ELSE st.fen,
            moves |-> st.moves]

\* the time controls a go line may carry
TimeTokens ==
  {Numeral(<< "3", "0", "0", "0", "0", "0" >>), Numeral(<< "6", "0", "0", "0" >>),
   Numeral(<< "-", "9", "0" >>), Word("soon")}
IncTokens ==
  {Numeral(<< "3", "0", "0", "0" >>), Numeral(<< "0" >>), Numeral(<< "+", "6", "0" >>)}
MoveTimeTokens ==
  {Numeral(<< "2", "0", "0" >>), Numeral(<< "7", "5", "0", "0" >>),
   Numeral(<< "-", "5" >>), Numeral(<< "1", "s" >>), Numeral(<< "-" >>)}

TimedLines ==
  {<< Word("go"), Word("wtime"), w, Word("btime"), b, Word("winc"), wi,
      Word("binc"), bi >> : w \in TimeTokens, b \in TimeTokens,
                            wi \in IncTokens, bi \in IncTokens}

GoLines ==
  TimedLines
  \cup {<< Word("go") >>, << Word("go"), Word("infinite") >>,
        << Word("go"), Word("depth"), Numeral(<< "5" >>) >>,
        << Word("go"), Word("movetime") >>}
  \cup {<< Word("go"), Word("movetime"), x >> : x \in MoveTimeTokens}
  \cup {l \o << Word("movetime"), x >> :
          l \in {m \in TimedLines : m[3] = m[5] /\ m[7] = m[9]},
          x \in MoveTimeTokens}
  \cup {<< Word("go"), Word("wtime"), w, Word("btime"), b >> :
          w \in TimeTokens, b \in TimeTokens}
  \cup {<< Word("go"), Word("btime"), b, Word("wtime"), w, Word("binc"), i,
           Word("winc"), i >> : w \in TimeTokens, b \in TimeTokens,
                                i \in IncTokens}

\* parse_go_command applied to a line, for either side to move
GoParse ==
  /\ uci.pc = "go"
  /\ uci' = [uci EXCEPT !.pc = "parsed",
                        !.budget = parse_go_command(uci.tokens, WhiteToMove(board))]
  /\ UNCHANGED << board, book, history, expired, pmpc, pm, transposition_table,
                  position_history, nodes, stopped, stack, ret, result, ev,
                  committed, late_at, sp, pieces, value, loader >>

\* everything but the command loop is at rest
EngineAtRest ==
  /\ history = << >>
  /\ expired = FALSE
  /\ pmpc = "idle"
  /\ pm = PmNone
  /\ transposition_table = {}
  /\ position_history = << >>
  /\ nodes = 0
  /\ stopped = FALSE
  /\ stack = << >>
  /\ ret = 0
  /\ result = NoResult
  /\ ev = EvNone
  /\ committed = NoCommit
  /\ late_at = 0
  /\ sp = SpNone
  /\ pieces = NoPieces
  /\ value = NoValue

InitGo ==
  /\ \E l \in GoLines :
       uci = [pc |-> "go", tokens |-> l, budget |-> Seconds(0, 1)]
  /\ board \in {1, 2}
  /\ book = NoBook
  /\ loader = LoaderNone
  /\ EngineAtRest

NextGo == GoParse

SpecGo == InitGo /\ [][NextGo]_vars

(***************************************************************************)
(* uci_main: the command loop.  One action handles one input line.         *)
(***************************************************************************)
\* Longest input the loop is given before end of file.
MaxLines == 3

\* the FEN text of a position of the game graph
FenText(p) ==
  << Word(IF p = 12 THEN "pieces12" ELSE "pieces19"), Space,
     Word(IF WhiteToMove(p) THEN "w" ELSE "b"), Space, Word("-"), Space,
     Word("-"), Space, Numeral(<< "0" >>), Space, Numeral(<< "1" >>) >>

\* Board::from_str(fen): the position a FEN text denotes, 0 for Err
FenBoard(fen) ==
  IF fen = START_POSITION THEN StartPos
  ELSE IF \E p \in {12, 19} : fen = FenText(p)
  THEN CHOOSE p \in {12, 19} : fen = FenText(p)
  ELSE 0

\* a move token as the two parsers of set_position take it
MoveToken(tok) ==
  IF tok.word \in {"a", "b", "c", "d", "e", "z"} THEN MoveStr(tok.word, "uci")
  ELSE MoveStr("", "junk")

\* `for move_str in moves` of set_position, from the i-th string on
RECURSIVE ApplyMoves(_, _, _)
ApplyMoves(st, moves, i) ==
  IF i > Len(moves) THEN st
  ELSE LET mv == MoveOf(st.board, MoveToken(moves[i]))
       IN  ApplyMoves(IF mv = NoMove THEN st
                      ELSE [board |-> make_move_new(st.board, mv),
                            history |-> Push(st.history, st.board,
                                             make_move_new(st.board, mv))],
                      moves, i + 1)

\* set_position(&fen, &moves)
set_position(fen, moves) ==
  ApplyMoves([board |-> FromFen(FenBoard(fen)),
              history |-> << FromFen(FenBoard(fen)) >>], moves, 1)

\* what play_move can come back with.  The iterative deepening itself is the
\* machine of Spec; here its result is any root move with the evaluation of
\* a position one move away.  Duration::from_secs_f64 panics on a negative
\* number of seconds (line 430).
PlayMoveOutcomes(p, bk, time_to_move) ==
  LET gen == LegalMoves[p]
  IN  IF bk[p] # {} THEN BookResult(p, bk[p])
      ELSE IF Len(gen) <= 1 THEN {RootResult(p, gen)}
      ELSE IF time_to_move.num < 0 THEN {[move |-> "panic", eval |-> 0]}
      ELSE {[move |-> gen[i].uci, eval |-> eval(gen[j].to)] :
              i \in 1 .. Len(gen), j \in 1 .. Len(gen)}

\* println!
Printed(text, arg, score) == [text |-> text, arg |-> arg, score |-> score]

Moves(list) == << Word("moves") >> \o [i \in 1 .. Len(list) |-> Word(list[i])]

PositionLines ==
  {<< Word("position") >>, << Word("position"), Word("startpos") >>,
   << Word("position"), Word("startpos") >> \o Moves(<< "a" >>),
   << Word("position"), Word("startpos") >> \o Moves(<< "e", "a" >>),
   << Word("position"), Word("startpos") >> \o Moves(<< "z", "c" >>),
   << Word("position"), Word("fen"), Word("pieces12"), Word("b"), Word("-"),
      Word("-"), Numeral(<< "0" >>), Numeral(<< "1" >>) >>,
   << Word("position"), Word("fen"), Word("pieces19"), Word("w"), Word("-"),
      Word("-"), Numeral(<< "0" >>), Numeral(<< "1" >>) >> \o Moves(<< "a", "b" >>),
   << Word("position"), Word("fen"), Word("nonsense") >> \o Moves(<< "d" >>)}

UciLines ==
  PositionLines
  \cup {<< Word("go") >>, << Word("go"), Word("movetime"), Numeral(<< "2", "0", "0" >>) >>,
        << Word("go"), Word("movetime"), Numeral(<< "-", "5" >>) >>,
        << Word("uci") >>, << Word("ucinewgame") >>, << Word("isready") >>,
        << Word("eval") >>, << Word("d") >>, << Word("display") >>,
        << Word("quit") >>, << Word("stop") >>, << >>}

\* what the command loop does not touch between two lines
behind == << book, history, expired, pmpc, pm, transposition_table,
            position_history, nodes, stopped, stack, ret, result, ev,
            committed, late_at, sp, pieces, value, loader >>

\* (uci.n: lines read; uci.cmd: the command of the last line; uci.returned:
\* what the last call of play_move returned; these three are observation
\* only)
\* the loop takes the next line off standard input
Reads(line) ==
  /\ uci.pc = "loop" /\ uci.n < MaxLines
  /\ line \in UciLines

Handled(cmd, out, evaluation) ==
  uci' = [uci EXCEPT !.n = uci.n + 1, !.cmd = cmd, !.out = uci.out \o out,
                     !.current_evaluation = evaluation]

\* "uci" (lines 45-50)
UciId ==
  \E line \in UciLines :
    /\ Reads(line) /\ line # << >> /\ line[1] = Word("uci")
    /\ Handled("uci", << Printed("id name Xewali 1.0", "", 0),
                         Printed("id author Himangshu Saikia", "", 0),
                         Printed("uciok", "", 0) >>, uci.current_evaluation)
    /\ UNCHANGED board
    /\ UNCHANGED behind

\* "ucinewgame" (lines 52-55)
UciNewGame ==
  \E line \in UciLines :
    /\ Reads(line) /\ line # << >> /\ line[1] = Word("ucinewgame")
    /\ Handled("ucinewgame", << >>, uci.current_evaluation)
    /\ board' = StartPos
    /\ UNCHANGED behind

\* "isready" (lines 57-60)
UciIsReady ==
  \E line \in UciLines :
    /\ Reads(line) /\ line # << >> /\ line[1] = Word("isready")
    /\ Handled("isready", << Printed("readyok", "", 0) >>, uci.current_evaluation)
    /\ UNCHANGED board
    /\ UNCHANGED behind

\* "position" (lines 62-65)
UciPosition ==
  \E line \in UciLines :
    /\ Reads(line) /\ line # << >> /\ line[1] = Word("position")
    /\ LET parsed == parse_position_command(line)
       IN  board' = set_position(parsed.fen, parsed.moves).board
    /\ Handled("position", << >>, uci.current_evaluation)
    /\ UNCHANGED behind

\* "go" (lines 67-79)
UciGo ==
  \E line \in UciLines :
    /\ Reads(line) /\ line # << >> /\ line[1] = Word("go")
    /\ LET time_to_move ==
             MinSeconds(parse_go_command(line, WhiteToMove(board)),
                        MAX_TIME_PER_MOVE)
       IN  \E r \in PlayMoveOutcomes(board, book, time_to_move) :
             IF r.move = "panic"
             THEN uci' = [uci EXCEPT !.n = uci.n + 1, !.cmd = "go",
                                     !.pc = "aborted",
                                     !.out = Append(uci.out,
                                                    Printed("info Thinking...", "", 0))]
             ELSE uci' = [uci EXCEPT !.n = uci.n + 1, !.cmd = "go",
                                     !.out = uci.out
                                             \o << Printed("info Thinking...", "", 0),
                                                   Printed("bestmove", r.move, 0) >>,
                                     !.current_evaluation = r.eval,
                                     !.returned = r]
    /\ UNCHANGED board
    /\ UNCHANGED behind

\* "quit" (lines 81-83)
UciQuit ==
  \E line \in UciLines :
    /\ Reads(line) /\ line # << >> /\ line[1] = Word("quit")
    /\ uci' = [uci EXCEPT !.n = uci.n + 1, !.cmd = "quit", !.pc = "done"]
    /\ UNCHANGED board
    /\ UNCHANGED behind

\* "eval" (lines 85-89)
UciEval ==
  \E line \in UciLines :
    /\ Reads(line) /\ line # << >> /\ line[1] = Word("eval")
    /\ Handled("eval", << Printed("", "", uci.current_evaluation) >>,
               uci.current_evaluation)
    /\ UNCHANGED board
    /\ UNCHANGED behind

\* "d" | "display" (lines 91-95)
UciDisplay ==
  \E line \in UciLines :
    /\ Reads(line) /\ line # << >> /\ line[1] \in {Word("d"), Word("display")}
    /\ Handled("display", << Printed("board", "", board) >>, uci.current_evaluation)
    /\ UNCHANGED board
    /\ UNCHANGED behind

\* an empty line or an unknown command (lines 40-42, 97-99)
UciIgnored ==
  \E line \in UciLines :
    /\ Reads(line)
    /\ IF line = << >> THEN TRUE
       ELSE line[1].word \notin {"uci", "ucinewgame", "isready", "position", "go",
                                  "quit", "eval", "d", "display"}
    /\ Handled("ignored", << >>, uci.current_evaluation)
    /\ UNCHANGED board
    /\ UNCHANGED behind

\* standard input is at its end
UciEof ==
  /\ uci.pc = "loop"
  /\ uci' = [uci EXCEPT !.pc = "done", !.cmd = "eof"]
  /\ UNCHANGED board
  /\ UNCHANGED behind

InitUci ==
  /\ uci = [pc |-> "loop", n |-> 0, cmd |-> "none", out |-> << >>,
            current_evaluation |-> 0, returned |-> NoResult]
  /\ board = StartPos
  /\ book \in BookChoices(StartPos)
  /\ loader = LoaderNone
  /\ EngineAtRest

NextUci ==
  \/ UciId
  \/ UciNewGame
  \/ UciIsReady
  \/ UciPosition
  \/ UciGo
  \/ UciQuit
  \/ UciEval
  \/ UciDisplay
  \/ UciIgnored
  \/ UciEof

SpecUci == InitUci /\ [][NextUci]_vars

\* the move tokens a position line may carry
RECURSIVE TokenLists(_)
TokenLists(n) ==
  IF n = 0 THEN {<< >>}
  ELSE TokenLists(n - 1)
       \cup {Append(l, Word(x)) : l \in {m \in TokenLists(n - 1) : Len(m) = n - 1},
                                  x \in {"a", "b", "c"}}

\* the fields of a FEN text, without the spaces
Fields(fen) == [i \in 1 .. (Len(fen) + 1) \div 2 |-> fen[2 * i - 1]]

PositionInputs ==
  LET tails == {<< >>} \cup {<< Word("moves") >> \o l : l \in TokenLists(MaxMoves)}
      heads == {<< Word("position"), Word("startpos") >>}
               \cup {<< Word("position"), Word("fen") >> \o Fields(f) :
                       f \in {START_POSITION, FenText(12), FenText(19)}}
               \cup {<< Word("position"), Word("fen"), Word("8/8/8/8/8/8/8/8") >>,
                     << Word("position"), Word("pieces12"), Word("b") >>,
                     << Word("position") >>}
  IN  {h \o t : h \in heads, t \in tails} \cup {<< >>}

\* parse_position_command applied to a line
PositionParse ==
  /\ uci.pc = "position"
  /\ uci' = [uci EXCEPT !.pc = "parsed",
                        !.fen = parse_position_command(uci.tokens).fen,
                        !.moves = parse_position_command(uci.tokens).moves]
  /\ UNCHANGED << board, behind >>

InitPosition ==
  /\ \E l \in PositionInputs :
       uci = [pc |-> "position", tokens |-> l, fen |-> << >>, moves |-> << >>]
  /\ board = StartPos
  /\ book = NoBook
  /\ loader = LoaderNone
  /\ EngineAtRest

NextPosition == PositionParse

SpecPosition == InitPosition /\ [][NextPosition]_vars

(***************************************************************************)
(* Moves as text.  A move string is the sequence of its characters; a      *)
(* character has a code point (the ones outside ASCII are written U+xxxx)  *)
(* and str::len counts the bytes of its UTF-8 encoding.  The two functions *)
(* named parse_uci_move (book.rs, engine.rs) are computed character by     *)
(* character.                                                              *)
(***************************************************************************)
CodePoint ==
  "a" :> 97 @@ "b" :> 98 @@ "c" :> 99 @@ "d" :> 100 @@ "e" :> 101 @@ "f" :> 102
  @@ "g" :> 103 @@ "h" :> 104 @@ "1" :> 49 @@ "2" :> 50 @@ "3" :> 51 @@ "4" :> 52
  @@ "5" :> 53 @@ "6" :> 54 @@ "7" :> 55 @@ "8" :> 56 @@ "0" :> 48 @@ "q" :> 113
  @@ "r" :> 114 @@ "n" :> 110 @@ "k" :> 107 @@ "Q" :> 81 @@ "N" :> 78
  @@ "R" :> 82 @@ "B" :> 66 @@ "x" :> 120 @@ "U+00E9" :> 233 @@ "U+0161" :> 353

\* `c as u8`: the low byte of the code point
AsU8(c) == CodePoint[c] % 256

\* char::len_utf8
LenUtf8(c) ==
  IF CodePoint[c] < 128 THEN 1 ELSE IF CodePoint[c] < 2048 THEN 2 ELSE 3

\* str::len
RECURSIVE StrLen(_)
StrLen(text) == IF text = << >> THEN 0 ELSE LenUtf8(Head(text)) + StrLen(Tail(text))

\* Square::make_square(rank, file)
MakeSquare(rank, file) == [file |-> file, rank |-> rank]

\* the squares of the moves of the game graph, by the name the graph gives
\* the move; "p" is a pawn reaching the last rank, "z" a move no position has
WireSquares ==
  "a" :> << "e", "2", "e", "4" >> @@ "b" :> << "d", "2", "d", "4" >>
  @@ "c" :> << "g", "1", "f", "3" >> @@ "d" :> << "b", "1", "c", "3" >>
  @@ "e" :> << "c", "2", "c", "4" >> @@ "p" :> << "a", "7", "a", "8" >>
  @@ "z" :> << "h", "2", "h", "5" >>

\* mv.get_source(), mv.get_dest(), mv.get_promotion()
get_source(mv) ==
  MakeSquare(AsU8(WireSquares[mv.uci][2]) - 49, AsU8(WireSquares[mv.uci][1]) - 97)
get_dest(mv) ==
  MakeSquare(AsU8(WireSquares[mv.uci][4]) - 49, AsU8(WireSquares[mv.uci][3]) - 97)
get_promotion(mv) == mv.promo

\* format!("{}", mv): source, destination, promotion letter in lower case
Display(mv) ==
  WireSquares[mv.uci]
  \o (CASE mv.promo = "Q" -> << "q" >> [] mv.promo = "R" -> << "r" >>
        [] mv.promo = "B" -> << "b" >> [] mv.promo = "N" -> << "n" >>
        [] OTHER -> << >>)

\* (variant: every fifth character asks for a queen)
PromotionLetterQueen(c) == "Q"

\* the fifth character as a promotion piece (`match chars[4]`)
PromotionLetter(c) ==
  CASE c \in {"q", "Q"} -> "Q" [] c \in {"r", "R"} -> "R"
    [] c \in {"b", "B"} -> "B" [] c \in {"n", "N"} -> "N" [] OTHER -> "none"

\* what a call of parse_uci_move comes to
SomeMove(mv) == [kind |-> "some", mv |-> mv]
NoneMove == [kind |-> "none", mv |-> NoMove]
Panicked == [kind |-> "panic", mv |-> NoMove]

\* the first of the indices, as the generator yields them
First(indices) == CHOOSE i \in indices : \A j \in indices : i <= j

\* the moves of gen from one square to the other
Matching(gen, from, to) ==
  {i \in 1 .. Len(gen) : get_source(gen[i]) = from /\ get_dest(gen[i]) = to}

\* book.rs parse_uci_move, lines 59-78: the move between the squares with
\* the promotion asked for, else the first move between the squares
book_find_move(gen, from, to, promotion) ==
  LET any == Matching(gen, from, to)
      exact == {i \in any : get_promotion(gen[i]) = promotion}
  IN  IF exact # {} THEN SomeMove(gen[First(exact)])
      ELSE IF any # {} THEN SomeMove(gen[First(any)])
      ELSE NoneMove

\* book.rs parse_uci_move(board, move_str); gen is MoveGen::new_legal(board).
\* checked_sub gives None below the base character; chars[i] panics past the
\* last character.
book_parse_uci_move(gen, text) ==
  LET n == Len(text)
      bytes == StrLen(text)
  IN  IF bytes < 4 THEN NoneMove
      ELSE IF n < 1 THEN Panicked
      ELSE IF AsU8(text[1]) < 97 THEN NoneMove
      ELSE IF n < 2 THEN Panicked
      ELSE IF AsU8(text[2]) < 49 THEN NoneMove
      ELSE IF AsU8(text[1]) - 97 > 7 \/ AsU8(text[2]) - 49 > 7 THEN NoneMove
      ELSE IF n < 3 THEN Panicked
      ELSE IF AsU8(text[3]) < 97 THEN NoneMove
      ELSE IF n < 4 THEN Panicked
      ELSE IF AsU8(text[4]) < 49 THEN NoneMove
      ELSE IF AsU8(text[3]) - 97 > 7 \/ AsU8(text[4]) - 49 > 7 THEN NoneMove
      ELSE IF bytes >= 5 /\ n < 5 THEN Panicked
      ELSE book_find_move(gen,
                          MakeSquare(AsU8(text[2]) - 49, AsU8(text[1]) - 97),
                          MakeSquare(AsU8(text[4]) - 49, AsU8(text[3]) - 97),
                          IF bytes >= 5 THEN PromotionLetter(text[5]) ELSE "none")

\* File::from_index, Rank::from_index of the u8 difference x - base: the
\* index is taken modulo 8; wrapping is what the subtraction does when
\* overflow checks are off
FromIndex(x, base) == ((x - base) % 256) % 8

\* engine.rs parse_uci_move, lines 559-579: the move between the squares
\* with the promotion asked for (none asked: the move without promotion),
\* else the only move between the squares
engine_find_move(gen, from, to, promotion) ==
  LET any == Matching(gen, from, to)
      exact == {i \in any : get_promotion(gen[i]) = promotion}
  IN  IF exact # {} THEN SomeMove(gen[First(exact)])
      ELSE IF Cardinality(any) = 1 THEN SomeMove(gen[First(any)])
      ELSE NoneMove

\* engine.rs parse_uci_move(board, move_str).  `chars[i] as u8 - b'a'` has
\* no check: below the base character it panics in a build with overflow
\* checks (checked) and wraps in one without.
engine_parse_uci_move(gen, text, checked) ==
  LET n == Len(text)
      bytes == StrLen(text)
      under(i, base) == AsU8(text[i]) < base
  IN  IF bytes < 4 THEN NoneMove
      ELSE IF n < 4 THEN Panicked
      ELSE IF checked /\ (under(1, 97) \/ under(2, 49) \/ under(3, 97) \/ under(4, 49))
      THEN Panicked
      ELSE IF bytes >= 5 /\ n < 5 THEN Panicked
      ELSE engine_find_move(gen,
                            MakeSquare(FromIndex(AsU8(text[2]), 49),
                                       FromIndex(AsU8(text[1]), 97)),
                            MakeSquare(FromIndex(AsU8(text[4]), 49),
                                       FromIndex(AsU8(text[3]), 97)),
                            IF bytes >= 5 THEN PromotionLetter(text[5]) ELSE "none")

\* a pawn on the seventh rank: the four promotions in generator order, and
\* another move
PromotionMoves ==
  << Promotion("p", 0, "Q"), Promotion("p", 0, "N"), Promotion("p", 0, "R"),
     Promotion("p", 0, "B"), Quiet("c", 0) >>

ParseBoards ==
  {LegalMoves[p] : p \in {q \in Positions : LegalMoves[q] # << >>}}
  \cup {PromotionMoves}

\* strings that are not the text of a move
OddTexts ==
  {<< "e", "2" >>, << "a", "1", "U+00E9" >>, << "U+0161", "2", "e", "4" >>,
   << "0", "0", "0", "0" >>, << "h", "2", "h", "5" >>,
   << "e", "2", "e", "4", "x" >>, << "a", "7", "a", "8" >>,
   << "a", "7", "a", "8", "k" >>, << "a", "7", "a", "8", "N" >>,
   << "e", "2", "e", "4", "q" >>, << "g", "1", "f", "3", "U+00E9" >>,
   << "x", "2", "e", "4" >>, << >>}

\* book.rs parse_uci_move on the string
ParseByBook ==
  /\ loader.pc = "parse"
  /\ loader' = [loader EXCEPT !.pc = "book",
                              !.by_book = book_parse_uci_move(loader.gen, loader.text)]
  /\ UNCHANGED << board, book, history, expired, pmpc, pm, transposition_table,
                  position_history, nodes, stopped, stack, ret, result, ev,
                  committed, late_at, sp, pieces, value, uci >>

\* engine.rs parse_uci_move on the same string
ParseByEngine ==
  /\ loader.pc = "book"
  /\ loader' = [loader EXCEPT !.pc = "both",
                              !.by_engine = engine_parse_uci_move(loader.gen, loader.text,
                                                                  loader.checked)]
  /\ UNCHANGED << board, book, history, expired, pmpc, pm, transposition_table,
                  position_history, nodes, stopped, stack, ret, result, ev,
                  committed, late_at, sp, pieces, value, uci >>

InitParse ==
  /\ \E gen \in ParseBoards, checked \in BOOLEAN :
       \E text \in OddTexts \cup {Display(gen[i]) : i \in 1 .. Len(gen)} :
         loader = [pc |-> "parse", gen |-> gen, text |-> text, checked |-> checked,
                   by_book |-> NoneMove, by_engine |-> NoneMove]
  /\ uci = UciNone
  /\ board = StartPos
  /\ book = NoBook
  /\ EngineAtRest

NextParse ==
  \/ ParseByBook
  \/ ParseByEngine

SpecParse == InitParse /\ [][NextParse]_vars

(***************************************************************************)
(* book.rs load_games.  A file is there or not; a line is readable or not  *)
(* (BufRead::lines gives Err for bytes that are not UTF-8) and is the      *)
(* sequence of its move strings.                                           *)
(***************************************************************************)
\* Longest book file, in lines.
MaxBookLines == 2

Line(texts) == [ok |-> TRUE, texts |-> texts]
Unreadable == [ok |-> FALSE, texts |-> << >>]

BookLines ==
  {Line(<< WireSquares["a"], WireSquares["a"], WireSquares["b"] >>),
   Line(<< WireSquares["b"], WireSquares["a"] >>),
   Line(<< WireSquares["a"], WireSquares["z"], WireSquares["a"] >>),
   Line(<< WireSquares["c"], << "e", "2" >>, WireSquares["a"] >>),
   Line(<< WireSquares["a"], << "a", "1", "U+00E9" >> >>),
   Line(<< WireSquares["a"], WireSquares["b"] \o << "x" >>, WireSquares["a"] >>),
   Line(<< >>),
   Unreadable}

RECURSIVE LineLists(_)
LineLists(n) ==
  IF n = 0 THEN {<< >>}
  ELSE LineLists(n - 1)
       \cup {Append(f, l) : f \in {g \in LineLists(n - 1) : Len(g) = n - 1},
                            l \in BookLines}

BookFiles ==
  {[exists |-> FALSE, lines |-> << >>]}
  \cup {[exists |-> TRUE, lines |-> f] : f \in LineLists(MaxBookLines)}

\* book.entry(key).or_default().insert(mv), key = board.get_hash()
BookInsert(bk, p, mv) == [bk EXCEPT ![p] = bk[p] \cup {mv}]

\* File::open and Book::new (lines 84-94)
LoadOpen ==
  /\ loader.pc = "open"
  /\ book' = NoBook
  /\ loader' = [loader EXCEPT !.pc = IF loader.file.exists THEN "lines" ELSE "done"]
  /\ UNCHANGED << board, history, expired, pmpc, pm, transposition_table,
                  position_history, nodes, stopped, stack, ret, result, ev,
                  committed, late_at, sp, pieces, value, uci >>

\* the head of `for line in reader.lines()` (lines 96-102)
LoadLine ==
  /\ loader.pc = "lines" /\ loader.li < Len(loader.file.lines)
  /\ IF loader.file.lines[loader.li + 1].ok
     THEN /\ board' = StartPos
          /\ loader' = [loader EXCEPT !.li = loader.li + 1, !.ti = 0, !.pc = "moves"]
     ELSE /\ loader' = [loader EXCEPT !.li = loader.li + 1]
          /\ UNCHANGED board
  /\ UNCHANGED << book, history, expired, pmpc, pm, transposition_table,
                  position_history, nodes, stopped, stack, ret, result, ev,
                  committed, late_at, sp, pieces, value, uci >>

\* one pass of `for move_str in line.split_whitespace()` (lines 104-113)
LoadMove ==
  /\ loader.pc = "moves" /\ loader.ti < Len(loader.file.lines[loader.li].texts)
  /\ LET parsed == book_parse_uci_move(LegalMoves[board],
                                       loader.file.lines[loader.li].texts[loader.ti + 1])
     IN  CASE parsed.kind = "some" ->
                /\ book' = BookInsert(book, board, parsed.mv)
                /\ board' = make_move_new(board, parsed.mv)
                /\ loader' = [loader EXCEPT !.ti = loader.ti + 1]
           [] parsed.kind = "none" ->
                /\ loader' = [loader EXCEPT !.pc = "lines"]
                /\ UNCHANGED << board, book >>
           [] parsed.kind = "panic" ->
                /\ loader' = [loader EXCEPT !.pc = "panicked"]
                /\ UNCHANGED << board, book >>
  /\ UNCHANGED << history, expired, pmpc, pm, transposition_table,
                  position_history, nodes, stopped, stack, ret, result, ev,
                  committed, late_at, sp, pieces, value, uci >>

\* the line has no more strings
LoadLineEnd ==
  /\ loader.pc = "moves" /\ loader.ti = Len(loader.file.lines[loader.li].texts)
  /\ loader' = [loader EXCEPT !.pc = "lines"]
  /\ UNCHANGED << board, book, history, expired, pmpc, pm, transposition_table,
                  position_history, nodes, stopped, stack, ret, result, ev,
                  committed, late_at, sp, pieces, value, uci >>

\* `book` (line 116)
LoadReturn ==
  /\ loader.pc = "lines" /\ loader.li = Len(loader.file.lines)
  /\ loader' = [loader EXCEPT !.pc = "done"]
  /\ UNCHANGED << board, book, history, expired, pmpc, pm, transposition_table,
                  position_history, nodes, stopped, stack, ret, result, ev,
                  committed, late_at, sp, pieces, value, uci >>

InitBook ==
  /\ \E f \in BookFiles : loader = [pc |-> "open", file |-> f, li |-> 0, ti |-> 0]
  /\ uci = UciNone
  /\ board = StartPos
  /\ book = NoBook
  /\ EngineAtRest

NextBook ==
  \/ LoadOpen
  \/ LoadLine
  \/ LoadMove
  \/ LoadLineEnd
  \/ LoadReturn

SpecBook == InitBook /\ [][NextBook]_vars

(***************************************************************************)
(* Plain minimax to depth d: White maximises, Black minimises, with the    *)
(* engine's repetition rule and its capture-only extension at the horizon, *)
(* and with no table, no window, no ordering, no null move, no reduction.  *)
(***************************************************************************)
RECURSIVE SeqMax(_)
SeqMax(s) == IF Len(s) = 1 THEN s[1] ELSE Max(s[1], SeqMax(Tail(s)))
RECURSIVE SeqMin(_)
SeqMin(s) == IF Len(s) = 1 THEN s[1] ELSE Min(s[1], SeqMin(Tail(s)))
Best(white, s) == IF white THEN SeqMax(s) ELSE SeqMin(s)

RECURSIVE QuiescenceMinimax(_, _)
QuiescenceMinimax(p, qs_depth) ==
  IF qs_depth >= MAX_QUIESCENCE_DEPTH THEN eval(p)
  ELSE Best(WhiteToMove(p),
            << eval(p) >> \o
            [i \in 1 .. Len(LegalMoves[p]) |->
               IF is_capture(p, LegalMoves[p][i])
               THEN QuiescenceMinimax(LegalMoves[p][i].to, qs_depth + 1)
               ELSE eval(p)])

RECURSIVE Minimax(_, _, _)
Minimax(p, d, h) ==
  IF IsRepetition(p, h) THEN 0
  ELSE IF d <= 0 THEN QuiescenceMinimax(p, 0)
  ELSE IF LegalMoves[p] = << >> THEN eval(p)
  ELSE Best(WhiteToMove(p),
            [i \in 1 .. Len(LegalMoves[p]) |->
               Minimax(LegalMoves[p][i].to, d - 1, Append(h, p))])

SearchDone == pmpc = "direct" /\ stack = << >>

(***************************************************************************)
(* Properties.                                                             *)
(***************************************************************************)

\* C1: when play_move returns after a stop, the move and the score it
\* returns are those of the last iteration that ran to completion; nothing
\* measured in the interrupted iteration is returned.
C1_InterruptedIterationDiscarded ==
  (pmpc = "done" /\ stopped /\ committed.depth >= 1)
    => (result.move = committed.move /\ result.eval = committed.eval)

\* C1 witness: the stop came in iteration 3 or later after a root move of
\* that iteration had been scored with a best score other than the
\* committed one
C1_Witness ==
  /\ pmpc = "done" /\ stopped /\ committed.depth >= 2
  /\ pm.depth = committed.depth + 1
  /\ pm.mi >= 1
  /\ pm.depth_best_eval # committed.eval
  /\ result.eval = committed.eval

\* C2: stopped is never cleared, and once it is set (the step that sets it
\* included) the frame on top of the stack returns 0 at its next step, with
\* no evaluation, leaving the frames below it as they are.
C2_StoppedUnwinds ==
  [][/\ stopped => stopped'
     /\ (stopped' /\ stack # << >> /\ stack' # stack)
          => (stack' = Rest /\ ret' = 0 /\ ~ev'.evald)]_vars

\* C2 witness: a frame of the move loop is resumed after the stop and
\* returns 0 with frames still below it
C2_Witness ==
  /\ stopped /\ ev.op = "search_loop" /\ ev.exit = "stopped" /\ ret = 0
  /\ Len(stack) >= 2

\* C3: no step that ends with stopped set changes the transposition table.
C3_NoStoreAfterStop ==
  [][stopped' => transposition_table' = transposition_table]_vars

\* C3 witness: a node past its first move returns under the stop while the
\* table holds entries
C3_Witness ==
  /\ stopped /\ ev.op = "search_loop" /\ ev.exit = "stopped"
  /\ ev.store = "none" /\ transposition_table # {}

\* C4: a search frame entered, not stopped, on a position that occurs at
\* least twice in position_history returns 0 at its first step, at any
\* depth, without probing or changing the table and without evaluating.
C4_RepetitionReturnsZero ==
  [][(/\ stack # << >> /\ Top.kind = "search" /\ Top.pc = "enter" /\ ~stopped
      /\ Cardinality({i \in 1 .. Len(position_history) :
                        position_history[i] = Top.board}) >= 2
      /\ stack' # stack)
       => (/\ stack' = Rest /\ ret' = 0
           /\ transposition_table' = transposition_table
           /\ ~ev'.probed /\ ~ev'.evald)]_vars

\* C4 witness: the repetition exit is taken at depth >= 1 on a position
\* that has a table entry
C4_Witness ==
  /\ ev.op = "search" /\ ev.exit = "repetition" /\ ev.depth >= 1
  /\ \E x \in transposition_table : x.key = ev.key

\* C5: a search frame leaves position_history as it found it, on every
\* exit, and the caller's history is never changed.
C5_HistoryBalanced ==
  [][/\ history' = history
     /\ (stack # << >> /\ Top.kind = "search" /\ Len(stack') < Len(stack))
          => position_history' = Top.hist0]_vars

\* C5 witness: the stopped exit after a reduced search, below the root of
\* the search tree
C5_Witness ==
  /\ ev.op = "search_lmr" /\ ev.exit = "stopped"
  /\ position_history = ev.hist0 /\ Len(position_history) > Len(history)

\* C6: the flag of a stored entry is Upper if best_score <= alpha0, Lower if
\* best_score >= beta0 and Exact otherwise, for either side to move.
C6_FlagFollowsWindow ==
  ev.store # "none"
    => ev.sentry.flag = (IF ev.sentry.eval <= ev.oalpha THEN "UpperBound"
                         ELSE IF ev.sentry.eval >= ev.obeta THEN "LowerBound"
                         ELSE "Exact")

\* C7: search returns on a table hit only if the entry is at least as deep
\* as the node and is Exact, or Lower with score >= beta, or Upper with
\* score <= alpha, and then it returns the entry's score; a node that goes
\* on takes the entry's move as tt_move.
C7_TTCutoffSound ==
  /\ (ev.op = "search" /\ ev.exit = "tt")
       => /\ ev.entry # NoEntry
          /\ ev.entry.depth >= ev.depth
          /\ \/ ev.entry.flag = "Exact"
             \/ ev.entry.flag = "LowerBound" /\ ev.entry.eval >= ev.beta
             \/ ev.entry.flag = "UpperBound" /\ ev.entry.eval <= ev.alpha
          /\ ret = ev.entry.eval
  /\ (ev.op = "search" /\ ev.exit = "call" /\ ev.probed)
       => stack[Len(stack) - 1].tt_move = ev.entry.best_move

\* C7 witness: a Lower entry cuts the node off
C7_Witness ==
  /\ ev.op = "search" /\ ev.exit = "tt" /\ ev.entry.flag = "LowerBound"
  /\ ret = ev.entry.eval

\* a deep enough hit that does not decide the node
C8_Case ==
  /\ ev.op = "search" /\ ev.probed /\ ev.exit = "call"
  /\ ev.entry # NoEntry /\ ev.entry.depth >= ev.depth

\* C8 as stated: after such a hit a Lower entry has raised alpha to at least
\* its score and an Upper entry has lowered beta to at most its score
C8_HitTightensWindow ==
  C8_Case
    => /\ ev.entry.flag = "LowerBound" => Top.alpha >= ev.entry.eval
       /\ ev.entry.flag = "UpperBound" => Top.beta <= ev.entry.eval

\* C8 amended: after such a hit the node goes on with the window it was
\* called with, whatever the entry's flag; its first call passes that window
C8_HitKeepsWindow ==
  C8_Case
    => /\ ev.walpha = ev.alpha /\ ev.wbeta = ev.beta
       /\ Top.alpha = ev.alpha /\ Top.beta = ev.beta

\* C8 witness: a Lower entry with a score inside the window, which would
\* have raised alpha
C8_Witness ==
  /\ C8_Case /\ ev.entry.flag = "LowerBound"
  /\ ev.entry.eval > ev.alpha /\ ev.entry.eval < ev.beta
  /\ Top.alpha = ev.alpha

\* C9: the table never holds more than MAX_TT_ENTRIES entries nor two
\* entries of one hash, and a node whose store is dropped returns its best
\* score all the same.
C9_TableBounded ==
  /\ Cardinality(transposition_table) <= MAX_TT_ENTRIES
  /\ \A x, y \in transposition_table : x.key = y.key => x = y
  /\ ev.store = "dropped"
       => /\ ev.sentry \notin transposition_table
          /\ ret = ev.sentry.eval

\* C9 witness: a store is dropped at a full table
C9_Witness ==
  /\ ev.store = "dropped" /\ ret = ev.sentry.eval
  /\ Cardinality(transposition_table) = MAX_TT_ENTRIES

\* C10 as stated: search on a fresh state with the full window returns the
\* minimax value of the same depth
C10_SearchEqualsMinimax ==
  (SearchDone /\ ~stopped) => ret = Minimax(board, pm.depth, history)

\* C10 amended: it does so for depth <= 2, where neither the null move nor
\* a reduction is tried
C10_SearchEqualsMinimaxShallow ==
  (SearchDone /\ ~stopped /\ pm.depth <= 2)
    => ret = Minimax(board, pm.depth, history)

\* C10 witness: a depth-2 search that stored entries and returned a value
\* other than the static evaluation of its root
C10_Witness ==
  /\ SearchDone /\ ~stopped /\ pm.depth = 2
  /\ Cardinality(transposition_table) >= 3
  /\ ret # eval(board)
  /\ ret = Minimax(board, pm.depth, history)

(***************************************************************************)
(* play_move: time, results, root cases.                                   *)
(***************************************************************************)
\* a step that enters search or quiescence
NodeEntry == ev'.op \in {"search", "quiescence"}

\* C11: every entry to search or quiescence that finds stopped unset counts
\* one node and nothing else changes the counter; the clock decides exactly
\* at the entries that bring the counter to a multiple of the polling
\* interval; so once the time is up, stopped is set after at most NodePoll
\* further nodes, after which no node is counted and play_move returns.
C11_StopsWithinPollInterval ==
  /\ [][/\ (NodeEntry /\ ~stopped) => nodes' = nodes + 1
        /\ (nodes' # nodes) => (NodeEntry /\ ~stopped /\ nodes' = nodes + 1)
        /\ (NodeEntry /\ ~stopped)
             => (stopped' <=> (expired /\ nodes' % NodePoll = 0))
        /\ stopped => (stopped' /\ nodes' = nodes)]_vars
  /\ [](expired /\ ~stopped => nodes - late_at < NodePoll)
  /\ [](stopped => expired /\ nodes - late_at <= NodePoll)
  /\ (stopped ~> pmpc = "done")
  /\ [](pmpc = "capped" => ~stopped)

\* C11 witness: the time ran out just after a poll, the search went on for a
\* whole polling interval, was stopped at the next poll, and play_move
\* returned
C11_Witness ==
  /\ pmpc = "done" /\ stopped /\ nodes - late_at = NodePoll

\* the moves of the position as play_move prints them
LegalUci(p) == {LegalMoves[p][i].uci : i \in 1 .. Len(LegalMoves[p])}

\* play_move returned without creating a SearchState
NoSearch ==
  /\ nodes = 0 /\ transposition_table = {} /\ position_history = << >>
  /\ stack = << >> /\ committed = NoCommit /\ ~stopped

\* C12: with an empty book and at least one legal move, play_move returns
\* a non-empty string that is a legal move of the position, whenever the
\* time runs out and whatever the history is.
C12_ReturnsLegalMove ==
  (pmpc = "done" /\ book = NoBook /\ LegalMoves[board] # << >>)
    => (result.move # "" /\ result.move \in LegalUci(board))

\* C12 witness: the search was stopped before the depth-1 iteration was
\* complete, in a game with a repeated position, and play_move returned the
\* first legal move
C12_Witness ==
  /\ pmpc = "done" /\ book = NoBook /\ stopped /\ committed.depth = 0
  /\ Len(history) > 1
  /\ result.move = LegalMoves[board][1].uci

\* C13: with no book entry, a position with no legal move gives the empty
\* string and score 0, and a position with one legal move gives that move
\* and eval of the position; in both cases no node is visited and no search
\* state is created.
C13_RootEdgeCases ==
  (pmpc = "done" /\ book[board] = {} /\ Len(LegalMoves[board]) <= 1)
    => /\ NoSearch
       /\ LegalMoves[board] = << >> => result = [move |-> "", eval |-> 0]
       /\ Len(LegalMoves[board]) = 1
            => result = [move |-> LegalMoves[board][1].uci, eval |-> eval(board)]

\* C13 witness: the only legal move is returned with a non-zero evaluation
C13_Witness ==
  /\ pmpc = "done" /\ book[board] = {} /\ Len(LegalMoves[board]) = 1
  /\ result.move = LegalMoves[board][1].uci /\ result.eval = eval(board)
  /\ result.eval # 0 /\ NoSearch

\* C14: if the book has moves for the position, play_move returns one of
\* them with score 0 and never enters the search; a single book move is
\* the one returned.
C14_BookHit ==
  (pmpc = "done" /\ book[board] # {})
    => /\ \E m \in book[board] : result = [move |-> m.uci, eval |-> 0]
       /\ NoSearch

\* C14 witness: the second of two book moves is returned, in a position
\* whose evaluation is not 0 and in a game with a repeated position
C14_Witness ==
  /\ pmpc = "done" /\ Cardinality(book[board]) = 2
  /\ result.move = LegalMoves[board][2].uci /\ result.eval = 0
  /\ eval(board) # 0 /\ Len(history) > 1 /\ NoSearch

\* the moves of the position that give checkmate
MatingMoves(p) ==
  {LegalMoves[p][i] : i \in {j \in 1 .. Len(LegalMoves[p]) :
      LET q == make_move_new(p, LegalMoves[p][j])
      IN  LegalMoves[q] = << >> /\ InCheck(q)}}

\* C15: in a position with no book entry and a mating move, once the first
\* iteration is complete play_move returns a mating move with score
\* +MATE_EVAL (White to move) or -MATE_EVAL (Black to move), and no
\* iteration is started after one whose best score is a mate score.
C15_MateInOne ==
  /\ (pmpc = "done" /\ book[board] = {} /\ MatingMoves(board) # {}
        /\ committed.depth >= 1)
       => /\ \E m \in MatingMoves(board) : result.move = m.uci
          /\ result.eval = IF WhiteToMove(board) THEN MATE_EVAL ELSE 0 - MATE_EVAL
          /\ committed.depth = 1
  /\ (pmpc \in {"search", "capped"}) => Abs(committed.eval) # MATE_EVAL

\* C15 witness: White mates in one with its second move
C15_Witness ==
  /\ pmpc = "done" /\ WhiteToMove(board) /\ book[board] = {}
  /\ committed.depth = 1 /\ ~stopped
  /\ result.move \notin {LegalMoves[board][1].uci}
  /\ LegalMoves[board][1] \notin MatingMoves(board)
  /\ result.eval = MATE_EVAL

(***************************************************************************)
(* set_position.                                                           *)
(***************************************************************************)
\* the board after the longest prefix of the list whose strings are all
\* legal moves
RECURSIVE PrefixBoard(_, _)
PrefixBoard(p, l) ==
  IF l = << >> \/ MoveOf(p, Head(l)) = NoMove THEN p
  ELSE PrefixBoard(make_move_new(p, MoveOf(p, Head(l))), Tail(l))

RECURSIVE PrefixLength(_, _)
PrefixLength(p, l) ==
  IF l = << >> \/ MoveOf(p, Head(l)) = NoMove THEN 0
  ELSE 1 + PrefixLength(make_move_new(p, MoveOf(p, Head(l))), Tail(l))

\* C19 as stated: the first illegal move and every move after it are
\* dropped: the returned board and history are those of the longest prefix
\* of legal moves, and no move is applied after a string that was not.
C19_IllegalMoveEndsList ==
  /\ ~sp.late
  /\ sp.pc = "done"
       => /\ board = PrefixBoard(FromFen(sp.fen), sp.moves)
          /\ Len(history) = 1 + PrefixLength(FromFen(sp.fen), sp.moves)

\* what the code does instead: a string that is not a legal move is passed
\* over alone, and the strings after it are still tried on the same board
C19_IllegalMoveSkipped ==
  [][(sp.pc = "loop" /\ sp'.pc = "loop")
       => /\ sp'.i = sp.i + 1
          /\ IF MoveOf(board, sp.moves[sp.i + 1]) = NoMove
             THEN board' = board /\ history' = history
             ELSE board' = make_move_new(board, MoveOf(board, sp.moves[sp.i + 1]))]_vars

\* C20: the history starts with the hash of the initial position, gains
\* one hash per applied move, each the hash of the position that move led
\* to, and so ends with the hash of the board.
C20_HistoryIsThePositions ==
  sp.pc \in {"loop", "done"}
    => /\ Len(history) = 1 + sp.applied
       /\ history[1] = FromFen(sp.fen)
       /\ history[Len(history)] = board
       /\ \A k \in 1 .. Len(history) - 1 :
            \E i \in 1 .. Len(LegalMoves[history[k]]) :
              make_move_new(history[k], LegalMoves[history[k]][i]) = history[k + 1]

\* C20 witness: three moves were applied, none of them leading back to the
\* position before it
C20_Witness ==
  /\ sp.pc = "done" /\ sp.applied = 3 /\ Len(history) = 4
  /\ history[4] = board /\ history[1] = FromFen(sp.fen)
  /\ history[3] # history[1] /\ history[4] # history[2]

(***************************************************************************)
(* eval.                                                                   *)
(***************************************************************************)
Evaluated == value.pc \in {"done", "both"}

\* C16: eval is -MATE_EVAL when White is to move and checkmated, +MATE_EVAL
\* when Black is to move and checkmated, and 0 for stalemate, for king
\* against king and for three pieces of which one is a knight or a bishop,
\* whatever the positional sum of the board would be.
C16_TerminalExactness ==
  Evaluated
    => /\ (status(pieces) = "Checkmate" /\ pieces.stm = "w")
            => value.score = Score(0 - MATE_EVAL, 1, 1)
       /\ (status(pieces) = "Checkmate" /\ pieces.stm = "b")
            => value.score = Score(MATE_EVAL, 1, 1)
       /\ status(pieces) = "Stalemate" => value.score = Score(0, 1, 1)
       /\ Cardinality(combined(pieces)) = 2 => value.score = Score(0, 1, 1)
       /\ (/\ Cardinality(combined(pieces)) = 3
           /\ \E s \in Squares : pieces.sq[s + 1] \in {"N", "n", "B", "b"})
            => value.score = Score(0, 1, 1)

\* C16 witness: the checkmate of tests::test_checkmate_eval, a middlegame
\* with all the pieces but one pawn, evaluates to +MATE_EVAL
C16_Witness ==
  /\ Evaluated /\ pieces = ScholarsMate
  /\ status(pieces) = "Checkmate" /\ pieces.stm = "b"
  /\ value.score = Score(MATE_EVAL, 1, 1)
  /\ Cardinality(combined(pieces)) = 31

\* x = -y for two results of eval
Negated(x, y) ==
  /\ x.base = 0 - y.base
  /\ x.num * y.num = x.den * y.den

\* C17 as stated: eval of the colour reflection of a board is minus eval of
\* the board, and every Black table is the White table of the same piece
\* with the ranks mirrored.
C17_EvalAntisymmetric ==
  /\ value.pc = "both" => Negated(value.score, value.mirror)
  /\ \A kind \in Kinds, s \in Squares, eg \in BOOLEAN :
       piece_square_value(kind, "b", s, eg)
         = piece_square_value(kind, "w", MirrorSq(s), eg)

\* C18: eval of the starting position is strictly between -50 and 50: the
\* integer part is 0 and the two mobility counts are equal, so that the
\* logarithm is 0.
C18_StartNearZero ==
  (Evaluated /\ pieces = StartBoard)
    => /\ value.score.base > 0 - 50 /\ value.score.base < 50
       /\ value.score.base = 0
       /\ value.score.num = value.score.den /\ value.score.num > 0

\* C18 witness: the starting position was evaluated as an ongoing
\* middlegame
C18_Witness ==
  /\ Evaluated /\ pieces = StartBoard /\ value.score = Score(0, 24, 24)
  /\ has_game_ended(pieces) = "Ongoing"
  /\ calculate_material(pieces, "w") >= ENDGAME_THRESHOLD

(***************************************************************************)
(* The front end: go, position, the command loop.                          *)
(***************************************************************************)
\* the number that follows the first occurrence of the sub-token key
ValueAfter(tokens, key) ==
  LET idx == IndexOf(tokens, key)
  IN  IF idx # 0 /\ idx + 1 <= Len(tokens) THEN ParseI64(tokens[idx + 1]) ELSE None

\* the budget by the three rules: movetime, then the side's time and
\* increment, then the default
BudgetByRule(tokens, white) ==
  LET movetime == ValueAfter(tokens, "movetime")
      T == ValueAfter(tokens, IF white THEN "wtime" ELSE "btime")
      I == ValueAfter(tokens, IF white THEN "winc" ELSE "binc")
  IN  IF movetime.ok THEN Seconds(movetime.val, 1000)
      ELSE IF T.ok THEN Seconds(T.val + 30 * UnwrapOr(I, 0), 30000)
      ELSE Seconds(1, 1)

\* C21: the budget of `go` is X/1000 s for `movetime X`; otherwise
\* T/30000 + I/1000 s when the remaining time T of the side to move is
\* given (I its increment, 0 when absent); otherwise 1 s.
C21_GoBudget ==
  uci.pc = "parsed" => uci.budget = BudgetByRule(uci.tokens, WhiteToMove(board))

\* go wtime W btime B winc WI binc BI, every value a number
TimedLine(tokens) ==
  /\ Len(tokens) = 9
  /\ tokens[1] = Word("go")
  /\ tokens[2] = Word("wtime") /\ tokens[4] = Word("btime")
  /\ tokens[6] = Word("winc") /\ tokens[8] = Word("binc")
  /\ \A i \in {3, 5, 7, 9} : ParseI64(tokens[i]).ok

\* C22: for `go wtime W btime B winc WI binc BI` the budget is
\* (T + I) / 60000 s, T and I being the remaining time and the increment of
\* the side to move.
C22_TimedBudget ==
  (uci.pc = "parsed" /\ TimedLine(uci.tokens)) =>
    LET white == WhiteToMove(board)
        T == ParseI64(uci.tokens[IF white THEN 3 ELSE 5]).val
        I == ParseI64(uci.tokens[IF white THEN 7 ELSE 9]).val
    IN  uci.budget = Seconds(T + I, 60000)

\* 300000 ms and 3000 ms give 5.05 s
C22_Witness ==
  /\ uci.pc = "parsed"
  /\ TimedLine(uci.tokens)
  /\ ParseI64(uci.tokens[3]).val = 300000 /\ ParseI64(uci.tokens[7]).val = 3000
  /\ WhiteToMove(board)
  /\ uci.budget = Seconds(505, 100)

\* the step handles a line whose command is cmd
Handles(cmd) == uci'.n = uci.n + 1 /\ uci'.cmd = cmd

\* C23: every go line prints `info Thinking...` and then one `bestmove`
\* line with the move play_move returned, before the next line is read; an
\* eval line prints the score play_move returned last; no other command
\* prints either line.
C23_GoThenBestmove ==
  [][/\ Handles("go") =>
          /\ uci'.pc = "loop"
          /\ uci'.out = uci.out \o << Printed("info Thinking...", "", 0),
                                      Printed("bestmove", uci'.returned.move, 0) >>
     /\ Handles("eval") =>
          uci'.out = Append(uci.out, Printed("", "", uci.returned.eval))
     /\ (uci'.n = uci.n + 1 /\ uci'.cmd \notin {"go", "eval"}) =>
          \A i \in 1 .. Len(uci'.out) :
            i > Len(uci.out) => uci'.out[i].text \notin {"info Thinking...", "bestmove", ""}
    ]_vars

\* the same with the go lines that make play_move panic left out
C23_GoThenBestmoveUnlessAborted ==
  [][/\ (Handles("go") /\ uci'.pc # "aborted") =>
          /\ uci'.pc = "loop"
          /\ uci'.out = uci.out \o << Printed("info Thinking...", "", 0),
                                      Printed("bestmove", uci'.returned.move, 0) >>
     /\ Handles("eval") =>
          uci'.out = Append(uci.out, Printed("", "", uci.returned.eval))
    ]_vars

\* fields joined by single spaces
RECURSIVE Joined(_)
Joined(fields) ==
  IF Len(fields) <= 1 THEN fields
  ELSE Joined(SubSeq(fields, 1, Len(fields) - 1)) \o << Space, fields[Len(fields)] >>

\* the line is head, or head followed by `moves` and the move tokens ms
Carries(tokens, head, ms) ==
  /\ \A i \in 1 .. Len(ms) : ms[i] # Word("moves")
  /\ \/ ms = << >> /\ tokens = head
     \/ tokens = head \o << Word("moves") >> \o ms

\* C25: parse_position_command returns the starting FEN and the tokens
\* after `moves`, in order, for `position startpos [moves ...]`; the six
\* FEN fields joined by single spaces and the move tokens, in order, for
\* `position fen f1 ... f6 [moves ...]`; the starting FEN and no moves for
\* fewer than two tokens.
C25_PositionParsed ==
  uci.pc = "parsed" =>
    /\ Len(uci.tokens) < 2 => uci.fen = START_POSITION /\ uci.moves = << >>
    /\ \A ms \in TokenLists(MaxMoves) :
         /\ Carries(uci.tokens, << Word("position"), Word("startpos") >>, ms)
              => uci.fen = START_POSITION /\ uci.moves = ms
         /\ \A f \in {START_POSITION, FenText(12), FenText(19)} :
              Carries(uci.tokens, << Word("position"), Word("fen") >> \o Fields(f), ms)
                => uci.fen = Joined(Fields(f)) /\ uci.fen = f /\ uci.moves = ms

\* C25 witness: a FEN line with two moves was parsed into the FEN text and
\* the two moves
C25_Witness ==
  /\ uci.pc = "parsed"
  /\ uci.tokens = << Word("position"), Word("fen") >> \o Fields(FenText(12))
                    \o << Word("moves"), Word("a"), Word("b") >>
  /\ uci.fen = FenText(12)
  /\ uci.moves = << Word("a"), Word("b") >>

(***************************************************************************)
(* Moves as text, the opening book.                                        *)
(***************************************************************************)
\* the elements of a move list
Listed(gen) == {gen[i] : i \in 1 .. Len(gen)}

\* C26: for every legal move m, both functions named parse_uci_move turn the
\* UCI text of m (source, destination, promotion letter) back into m, and
\* neither ever returns a move that is not a legal move of the board.
C26_UciRoundTrip ==
  loader.pc = "both" =>
    /\ \A m \in Listed(loader.gen) :
         loader.text = Display(m)
           => loader.by_book = SomeMove(m) /\ loader.by_engine = SomeMove(m)
    /\ loader.by_book.kind = "some" => loader.by_book.mv \in Listed(loader.gen)
    /\ loader.by_engine.kind = "some" => loader.by_engine.mv \in Listed(loader.gen)

\* C26 witness: the text of the knight promotion came back as the knight
\* promotion from both functions, the queen promotion being generated first
C26_Witness ==
  /\ loader.pc = "both"
  /\ loader.gen = PromotionMoves
  /\ loader.text = << "a", "7", "a", "8", "n" >>
  /\ loader.by_book = SomeMove(PromotionMoves[2])
  /\ loader.by_engine = SomeMove(PromotionMoves[2])

\* a move in UCI notation: file, rank, file, rank and at most a promotion
\* letter
WellFormed(text) ==
  /\ Len(text) \in {4, 5}
  /\ \A i \in {1, 3} : text[i] \in {"a", "b", "c", "d", "e", "f", "g", "h"}
  /\ \A i \in {2, 4} : text[i] \in {"1", "2", "3", "4", "5", "6", "7", "8"}
  /\ Len(text) = 5 => PromotionLetter(text[5]) # "none"

\* the legal moves of p the string is the notation of
Denoted(p, text) ==
  IF ~WellFormed(text) THEN {}
  ELSE {m \in Listed(LegalMoves[p]) :
          /\ WireSquares[m.uci] = SubSeq(text, 1, 4)
          /\ m.promo = (IF Len(text) = 5 THEN PromotionLetter(text[5]) ELSE "none")}

\* the book after the strings of a line from the i-th on, played from p
RECURSIVE LineEntered(_, _, _, _)
LineEntered(bk, p, texts, i) ==
  IF i > Len(texts) \/ Denoted(p, texts[i]) = {} THEN bk
  ELSE LET m == CHOOSE m \in Denoted(p, texts[i]) : TRUE
       IN  LineEntered([bk EXCEPT ![p] = bk[p] \cup {m}], m.to, texts, i + 1)

\* the book after the lines of a file from the i-th on
RECURSIVE FileEntered(_, _, _)
FileEntered(bk, lines, i) ==
  IF i > Len(lines) THEN bk
  ELSE FileEntered(IF lines[i].ok THEN LineEntered(bk, StartPos, lines[i].texts, 1)
                   ELSE bk, lines, i + 1)

\* C24: a missing file gives the empty book; of every line the moves before
\* the first string that is not a legal move in UCI notation are entered
\* under the hash of the position they are played in, from the starting
\* position; the strings after it are not; the lines after it are
\* processed all the same.
C24_BookLoaded ==
  /\ loader.pc # "panicked"
  /\ loader.pc = "done" => book = FileEntered(NoBook, loader.file.lines, 1)

\* every string of the file is ASCII, and a fifth character is a promotion
\* letter
PlainFile(file) ==
  \A i \in 1 .. Len(file.lines) : \A j \in 1 .. Len(file.lines[i].texts) :
    LET text == file.lines[i].texts[j]
    IN  /\ \A k \in 1 .. Len(text) : CodePoint[text[k]] < 128
        /\ Len(text) >= 5 => PromotionLetter(text[5]) # "none"

\* the same for the files of plain strings
C24_PlainBookLoaded ==
  PlainFile(loader.file) =>
    /\ loader.pc # "panicked"
    /\ loader.pc = "done" => book = FileEntered(NoBook, loader.file.lines, 1)

(***************************************************************************)
(* search: null move, late-move reduction, move ordering; quiescence.      *)
(***************************************************************************)
\* the frame that made the call of this step, as it waits
Waiting == stack'[Len(stack') - 1]
\* the frame the call of this step created
Called == stack'[Len(stack')]

\* the step is search calling itself after a null move
NullCall ==
  /\ ev'.op = "search" /\ ev'.exit = "call"
  /\ Waiting.pc = "null_wait"

\* C27: search tries a null move only with allow_null, out of check, at
\* depth >= 3 and with a knight, bishop, rook or queen of the side to move;
\* the null search has depth - 3 and allow_null = false, so that no frame
\* waiting for a null search is called by another one; when the null score
\* is >= beta (White) or <= alpha (Black) the node returns beta or alpha,
\* having searched no move and stored nothing.
C27_NullMoveSafe ==
  /\ [][/\ NullCall =>
            /\ Top.allow_null /\ ~InCheck(Top.board) /\ Top.depth >= 3
            /\ has_non_pawn_material(Top.board)
            /\ Called = Frame("search", null_move(Top.board), Waiting.alpha,
                              Waiting.beta, Top.depth - 3, FALSE, position_history)
            /\ Called.board # 0
        /\ (ev'.op = "search_null" /\ ~stopped) =>
            LET white == WhiteToMove(Top.board)
                cut == IF white THEN ret >= Top.beta ELSE ret <= Top.alpha
            IN  /\ cut <=> ev'.exit = "null_cut"
                /\ cut => /\ ret' = (IF white THEN Top.beta ELSE Top.alpha)
                          /\ stack' = Rest
                          /\ Top.moves = << >>
                          /\ transposition_table' = transposition_table
                          /\ position_history' = position_history
       ]_vars
  /\ [](\A i \in 1 .. Len(stack) - 1 :
          stack[i].pc = "null_wait"
            => ~stack[i + 1].allow_null /\ stack[i + 1].pc # "null_wait")

\* C27 witness: a White node of depth >= 3 returned its beta after the null
\* search, and the table has no entry for it
C27_Witness ==
  /\ ev.op = "search_null" /\ ev.exit = "null_cut" /\ ~stopped
  /\ WhiteToMove(ev.key) /\ ev.depth >= 3
  /\ ret = ev.beta
  /\ \A entry \in transposition_table : entry.key # ev.key

\* the move a waiting frame is searching, and the position after it
MoveOfFrame(f) == f.moves[f.i + 1]
AfterMove(f) == make_move_new(f.board, MoveOfFrame(f))

\* the conditions of a reduction, for the move a frame is at
Reducible(f) ==
  /\ f.i >= 4 /\ f.depth >= 3
  /\ ~is_capture(f.board, MoveOfFrame(f)) /\ MoveOfFrame(f).promo = "none"
  /\ ~InCheck(AfterMove(f)) /\ ~InCheck(f.board)

\* the score improves alpha (White) or beta (Black)
Improves(f, score) ==
  IF WhiteToMove(f.board) THEN score > f.alpha ELSE score < f.beta

\* this step takes score as the result of the move the frame is at
Takes(f, score) ==
  LET white == WhiteToMove(f.board)
      best == IF white THEN Max(f.best_eval, score) ELSE Min(f.best_eval, score)
  IN  /\ ev'.exit \in {"call", "complete"}
      /\ ev'.exit = "call" =>
           /\ Waiting.i = f.i + 1
           /\ Waiting.best_eval = best
           /\ Waiting.alpha = (IF white THEN Max(f.alpha, score) ELSE f.alpha)
           /\ Waiting.beta = (IF white THEN f.beta ELSE Min(f.beta, score))
      /\ ev'.exit = "complete" => ret' = best

\* the step is the move loop calling search for a move for the first time
LoopCall ==
  /\ ev'.exit = "call" /\ Waiting.pc \in {"lmr_wait", "full_wait"}
  /\ ~(ev'.op = "search_lmr" /\ Waiting.i = Top.i)

\* C28: a move is searched at depth - 2 only if its index is >= 4, depth is
\* >= 3, it is no capture, no promotion, gives no check and the side to move
\* is not in check; every other move is searched at depth - 1 at once; a
\* reduced score that improves alpha (White) or beta (Black) is replaced by
\* the score of a search of the same move at depth - 1, and only that score
\* updates the best value and the window.
C28_LateMoveReduction ==
  [][/\ LoopCall =>
          /\ Waiting.pc = "lmr_wait" <=> Reducible(Waiting)
          /\ Called = Frame("search", AfterMove(Waiting), Waiting.alpha, Waiting.beta,
                            Waiting.depth - (IF Reducible(Waiting) THEN 2 ELSE 1),
                            TRUE, position_history')
     /\ (ev'.op = "search_lmr" /\ ~stopped) =>
          IF Improves(Top, ret)
          THEN /\ ev'.exit = "call"
               /\ Waiting = [Top EXCEPT !.pc = "full_wait"]
               /\ Called = Frame("search", AfterMove(Top), Top.alpha, Top.beta,
                                 Top.depth - 1, TRUE, position_history)
          ELSE Takes(Top, ret)
     /\ (ev'.op = "search_loop" /\ ~stopped) => Takes(Top, ret)
    ]_vars

\* C28 witness: the fifth move of a depth-3 node came back from the reduced
\* search with a score that improves the window and is searched again at
\* depth 2
C28_Witness ==
  /\ ev.op = "search_lmr" /\ ev.exit = "call" /\ ~stopped
  /\ Len(stack) >= 2
  /\ stack[Len(stack) - 1].pc = "full_wait" /\ stack[Len(stack) - 1].i >= 4
  /\ stack[Len(stack) - 1].depth = 3
  /\ Top.depth = 2 /\ Top.pc = "enter"
  /\ Improves(stack[Len(stack) - 1], ret)

\* the frames of search that have generated and sorted their moves
Sorted == {k \in 1 .. Len(stack) : stack[k].kind = "search" /\ stack[k].moves # << >>}

\* the place of a move in the generator's order
Generated(p, mv) == CHOOSE j \in 1 .. Len(LegalMoves[p]) : LegalMoves[p][j] = mv

\* the ordering score by the table of scores
TableScore(mv, tt_move) ==
  IF mv = tt_move THEN 100000
  ELSE IF mv.promo # "none" /\ mv.victim = "none" /\ ~mv.ep
  THEN 9000 + piece_order_value(mv.promo)
  ELSE IF mv.promo = "none" /\ mv.victim # "none"
  THEN 10 * piece_order_value(mv.victim) - piece_order_value(mv.attacker)
  ELSE IF mv.promo = "none" /\ mv.ep THEN 900
  ELSE IF mv.promo = "none" THEN 0
  ELSE 9000 + piece_order_value(mv.promo)
       + 10 * piece_order_value(mv.victim) - piece_order_value(mv.attacker)

\* C29: at every node of search the sorted moves are the legal moves in
\* non-increasing ordering score (table move 100000, promotion 9000 + value,
\* capture 10 * victim - attacker, en passant 900, other 0); a table move that
\* is legal comes first; moves of equal score keep the generator's order.
C29_MoveOrdering ==
  \A k \in Sorted :
    LET f == stack[k]
        gen == LegalMoves[f.board]
        score(i) == score_move(f.board, f.moves[i], f.tt_move)
    IN  /\ Len(f.moves) = Len(gen)
        /\ \A j \in 1 .. Len(gen) : \E i \in 1 .. Len(gen) : f.moves[i] = gen[j]
        /\ \A i \in 1 .. Len(gen) : score(i) = TableScore(f.moves[i], f.tt_move)
        /\ \A i, j \in 1 .. Len(gen) :
             i < j => /\ score(i) >= score(j)
                      /\ score(i) = score(j) =>
                           Generated(f.board, f.moves[i]) < Generated(f.board, f.moves[j])
        /\ (\E j \in 1 .. Len(gen) : gen[j] = f.tt_move) => f.moves[1] = f.tt_move

\* C29 witness: a node whose table move is a quiet move that the generator
\* lists behind others; it is searched first, the capture second, and the
\* quiet moves follow in the generator's order
C29_Witness ==
  /\ stack # << >> /\ Top.kind = "search" /\ Len(Top.moves) >= 4
  /\ Top.pc \in {"lmr_wait", "full_wait"}
  /\ Top.tt_move = Top.moves[1] /\ ~is_capture(Top.board, Top.moves[1])
  /\ Generated(Top.board, Top.moves[1]) > 2
  /\ is_capture(Top.board, Top.moves[2])
  /\ ~is_capture(Top.board, Top.moves[3]) /\ ~is_capture(Top.board, Top.moves[4])
  /\ Generated(Top.board, Top.moves[3]) < Generated(Top.board, Top.moves[4])

\* the step is a call of quiescence
QuiescenceCall == ev'.exit = "call" /\ Called.kind = "quiescence"

\* quiescence is entered from search with qdepth 0 and from itself with
\* qdepth + 1, by a capture, further along the generator's list each time
QuiescencePlies ==
  QuiescenceCall =>
    IF Waiting.kind = "search"
    THEN Called.depth = 0 /\ Called.board = Waiting.board
    ELSE LET mv == LegalMoves[Waiting.board][Waiting.i + 1]
         IN  /\ Called.depth = Waiting.depth + 1
             /\ Waiting.depth = Top.depth
             /\ is_capture(Waiting.board, mv)
             /\ mv.victim # "none" \/ (mv.ep /\ mv.attacker = "P")
             /\ Called.board = make_move_new(Waiting.board, mv)
             /\ Top.pc = "q_wait" => Waiting.i > Top.i

\* the step is the entry of a quiescence call at the cap
AtCap == ev'.op = "quiescence" /\ Top.depth >= MAX_QUIESCENCE_DEPTH

\* no quiescence frame is deeper than the cap
QuiescenceCapped ==
  \A k \in 1 .. Len(stack) :
    stack[k].kind = "quiescence" => stack[k].depth \in 0 .. MAX_QUIESCENCE_DEPTH

\* a quiescence call that is running returns to search
QuiescenceEnds ==
  (stack # << >> /\ Top.kind = "quiescence") ~> (stack = << >> \/ Top.kind = "search")

\* C30: quiescence is entered from search with qdepth 0, makes only capture
\* moves, adds exactly 1 to qdepth per ply, and a call with qdepth >= 8
\* returns eval(pos) without generating any move; no quiescence frame has
\* qdepth > 8 and every quiescence call terminates.
C30_QuiescenceBounded ==
  /\ [][/\ QuiescencePlies
        /\ AtCap => stack' = Rest /\ ret' = eval(Top.board)]_vars
  /\ []QuiescenceCapped
  /\ QuiescenceEnds

\* C30 as it holds: a call with qdepth >= 8 generates no move and returns
\* eval(pos), or 0 when the search is stopped by then (the poll of the clock
\* comes before the cap); the rest as stated.
C30_QuiescenceBoundedOrStopped ==
  /\ [][/\ QuiescencePlies
        /\ AtCap => /\ stack' = Rest
                    /\ ret' = (IF stopped' THEN 0 ELSE eval(Top.board))
                    /\ ev'.evald = ~stopped']_vars
  /\ []QuiescenceCapped
  /\ QuiescenceEnds

\* C30 witness: a call at qdepth 8 has returned the evaluation of its
\* position, which has a capture, to the call at qdepth 7
C30_Witness ==
  /\ ev.op = "quiescence" /\ ev.exit = "qs_cap" /\ ev.depth = MAX_QUIESCENCE_DEPTH
  /\ ~stopped /\ ret = eval(ev.key) /\ NextCapture(ev.key, 0) >= 0
  /\ stack # << >> /\ Top.kind = "quiescence" /\ Top.pc = "q_wait"
  /\ Top.depth = MAX_QUIESCENCE_DEPTH - 1

(***************************************************************************)
(* The history on the search path; the budget of go; set_position on any   *)
(* text; the range of scores.                                              *)
(***************************************************************************)
\* the frames of search on the stack
SearchFrames == {k \in 1 .. Len(stack) : stack[k].kind = "search"}

\* the positions of the frames above frame k, from the first call of search
\* by play_move down to the caller of frame k
RECURSIVE PathAbove(_)
PathAbove(k) ==
  IF k <= 1 THEN << >> ELSE Append(PathAbove(k - 1), stack[k - 1].board)

\* the same, without the frames that called their child by a null move
RECURSIVE PushedAbove(_)
PushedAbove(k) ==
  IF k <= 1 THEN << >>
  ELSE IF stack[k - 1].pc = "null_wait" THEN PushedAbove(k - 1)
  ELSE Append(PushedAbove(k - 1), stack[k - 1].board)

\* a frame of search is about to read position_history
Reading == stack # << >> /\ Top.kind = "search" /\ Top.pc = "enter" /\ ~stopped

\* C31: at every search frame that is not stopped, position_history is the
\* history given to play_move followed by the positions of all frames between
\* the root and the frame, each once and in path order, the frames at which a
\* null move was made included.
C31_PathHistory ==
  /\ \A k \in SearchFrames : stack[k].hist0 = history \o PathAbove(k)
  /\ Reading => position_history = history \o PathAbove(Len(stack))

\* what holds instead: the frames that made a null move are missing
C31_PathHistoryButNull ==
  /\ \A k \in SearchFrames : stack[k].hist0 = history \o PushedAbove(k)
  /\ Reading => position_history = history \o PushedAbove(Len(stack))

\* a frame below a null move reads a history without the position at which
\* the null move was made
C31_NullAncestorMissing ==
  /\ Reading /\ Len(stack) >= 3
  /\ stack[Len(stack) - 2].pc = "null_wait"
  /\ position_history = history \o PushedAbove(Len(stack))
  /\ Len(position_history) = Len(history) + Len(stack) - 2

\* the budget the go branch hands to play_move (main.rs lines 68-69, 74)
Handed == MinSeconds(uci.budget, MAX_TIME_PER_MOVE)

\* C32: for every go line the budget handed to play_move is a number of
\* seconds in [0, 5], whatever wtime, btime, winc, binc and movetime are, so
\* that the time limit of the search can be constructed.
C32_BudgetInRange ==
  uci.pc = "parsed" => /\ Handed.den > 0
                       /\ Handed.num >= 0
                       /\ Handed.num <= 5 * Handed.den

\* what holds: the budget is at most 5 seconds, and it is negative exactly
\* when the number the line gives for the side to move is
C32_BudgetAtMostFive ==
  uci.pc = "parsed" => /\ Handed.den > 0
                       /\ Handed.num <= 5 * Handed.den
                       /\ Handed.num < 0 <=> uci.budget.num < 0

\* a go line with a negative movetime hands play_move a negative budget
C32_NegativeBudget ==
  /\ uci.pc = "parsed" /\ Handed.num < 0
  /\ uci.tokens = << Word("go"), Word("movetime"), Numeral(<< "-", "5" >>) >>
  /\ Handed = Seconds(0 - 5, 1000)

(***************************************************************************)
(* set_position on move strings as text.  ChessMove::from_str of the rules *)
(* library reads two squares and, in a string of five bytes, a lower-case  *)
(* promotion letter; the strings it rejects go to parse_uci_move.          *)
(***************************************************************************)
Err == [ok |-> FALSE, from |-> MakeSquare(0, 0), to |-> MakeSquare(0, 0), promo |-> "none"]
Ok(from, to, promo) == [ok |-> TRUE, from |-> from, to |-> to, promo |-> promo]

\* ChessMove::from_str(move_str)
from_str(text) ==
  IF StrLen(text) # Len(text) \/ Len(text) \notin {4, 5} THEN Err
  ELSE IF \/ CodePoint[text[1]] \notin 97 .. 104 \/ CodePoint[text[2]] \notin 49 .. 56
          \/ CodePoint[text[3]] \notin 97 .. 104 \/ CodePoint[text[4]] \notin 49 .. 56
  THEN Err
  ELSE IF Len(text) = 5 /\ text[5] \notin {"q", "r", "n", "b"} THEN Err
  ELSE Ok(MakeSquare(CodePoint[text[2]] - 49, CodePoint[text[1]] - 97),
          MakeSquare(CodePoint[text[4]] - 49, CodePoint[text[3]] - 97),
          IF Len(text) = 5 THEN PromotionLetter(text[5]) ELSE "none")

\* one pass of `for move_str in moves` up to the move it applies (lines
\* 513-518): from_str and the test of legality, else parse_uci_move
TextMoveOf(p, text, checked) ==
  LET gen == LegalMoves[p]
      parsed == from_str(text)
      same == {i \in 1 .. Len(gen) :
                 /\ get_source(gen[i]) = parsed.from /\ get_dest(gen[i]) = parsed.to
                 /\ get_promotion(gen[i]) = parsed.promo}
  IN  IF parsed.ok
      THEN (IF same # {} THEN SomeMove(gen[First(same)]) ELSE NoneMove)
      ELSE engine_parse_uci_move(gen, text, checked)

\* the move strings given to set_position
MoveTexts ==
  {WireSquares["a"], WireSquares["b"], WireSquares["z"],
   << "0", "0", "0", "0" >>, << "a", "1", "U+00E9" >>, << "e", "2" >>,
   << "e", "2", "e", "4", "x" >>}

RECURSIVE TextLists(_)
TextLists(n) ==
  IF n = 0 THEN {<< >>}
  ELSE TextLists(n - 1)
       \cup {Append(l, x) : l \in {m \in TextLists(n - 1) : Len(m) = n - 1},
                            x \in MoveTexts}

\* set_position up to the loop (lines 509-510)
SetTextStart ==
  /\ sp.pc = "start"
  /\ board' = FromFen(sp.fen)
  /\ history' = << FromFen(sp.fen) >>
  /\ sp' = [sp EXCEPT !.pc = "loop"]
  /\ UNCHANGED << book, expired, pmpc, pm, transposition_table,
                  position_history, nodes, stopped, stack, ret, result, ev,
                  committed, late_at, pieces, value, uci, loader >>

\* one pass of `for move_str in moves` (lines 512-522); a panic of
\* parse_uci_move ends the process
SetTextMove ==
  /\ sp.pc = "loop" /\ sp.i < Len(sp.moves)
  /\ LET r == TextMoveOf(board, sp.moves[sp.i + 1], sp.checked)
     IN  IF r.kind = "panic"
         THEN /\ sp' = [sp EXCEPT !.pc = "aborted", !.i = sp.i + 1]
              /\ UNCHANGED << board, history >>
         ELSE IF r.kind = "some"
         THEN /\ board' = make_move_new(board, r.mv)
              /\ history' = Push(history, board, make_move_new(board, r.mv))
              /\ sp' = [sp EXCEPT !.i = sp.i + 1]
         ELSE /\ sp' = [sp EXCEPT !.i = sp.i + 1]
              /\ UNCHANGED << board, history >>
  /\ UNCHANGED << book, expired, pmpc, pm, transposition_table,
                  position_history, nodes, stopped, stack, ret, result, ev,
                  committed, late_at, pieces, value, uci, loader >>

\* `(board, history)` (line 524)
SetTextReturn ==
  /\ sp.pc = "loop" /\ sp.i = Len(sp.moves)
  /\ sp' = [sp EXCEPT !.pc = "done"]
  /\ UNCHANGED << board, history, book, expired, pmpc, pm, transposition_table,
                  position_history, nodes, stopped, stack, ret, result, ev,
                  committed, late_at, pieces, value, uci, loader >>

InitSetText ==
  /\ \E f \in Fens, l \in TextLists(MaxMoves), checked \in BOOLEAN :
       sp = [pc |-> "start", fen |-> f, moves |-> l, i |-> 0, checked |-> checked]
  /\ board = 0
  /\ history = << >>
  /\ book = NoBook
  /\ expired = FALSE
  /\ pmpc = "idle"
  /\ pm = PmNone
  /\ transposition_table = {}
  /\ position_history = << >>
  /\ nodes = 0
  /\ stopped = FALSE
  /\ stack = << >>
  /\ ret = 0
  /\ result = NoResult
  /\ ev = EvNone
  /\ committed = NoCommit
  /\ late_at = 0
  /\ pieces = NoPieces
  /\ value = NoValue
  /\ uci = UciNone
  /\ loader = LoaderNone

NextSetText ==
  \/ SetTextStart
  \/ SetTextMove
  \/ SetTextReturn

SpecSetText == InitSetText /\ [][NextSetText]_vars

\* the string is the text of a legal move of the position
LegalText(p, text) ==
  \E i \in 1 .. Len(LegalMoves[p]) : Display(LegalMoves[p][i]) = text

\* the step is one pass of the loop of set_position
TextPass == sp.pc = "loop" /\ sp'.i = sp.i + 1

\* C33: set_position returns for every FEN and every list of move strings: a
\* string that is not a legal move is skipped, the board and the history
\* staying as they were; parse_uci_move never indexes out of range and never
\* subtracts below zero; a FEN that does not parse gives the starting
\* position.
C33_SetPositionTotal ==
  /\ [](sp.pc # "aborted")
  /\ [][TextPass => /\ TextMoveOf(board, sp.moves[sp.i + 1], sp.checked).kind # "panic"
                    /\ ~LegalText(board, sp.moves[sp.i + 1])
                         => board' = board /\ history' = history]_vars
  /\ []((sp.pc = "loop" /\ sp.i = 0 /\ sp.fen \notin Positions)
           => board = StartPos /\ history = << StartPos >>)

\* what holds: a pass that does not abort leaves the board and the history
\* alone unless the string, or its first four characters when from_str
\* rejects it, names a legal move; a FEN that does not parse gives the
\* starting position
C33_SetPositionUnlessAborted ==
  /\ [][(TextPass /\ sp'.pc # "aborted") =>
          LET text == sp.moves[sp.i + 1]
              named == \/ LegalText(board, text)
                       \/ Len(text) > 4 /\ LegalText(board, SubSeq(text, 1, 4))
          IN  /\ ~named => board' = board /\ history' = history
              /\ LegalText(board, text) =>
                   /\ \E i \in 1 .. Len(LegalMoves[board]) :
                        /\ Display(LegalMoves[board][i]) = text
                        /\ board' = make_move_new(board, LegalMoves[board][i])
                   /\ history' = Append(history, board')]_vars
  /\ []((sp.pc = "loop" /\ sp.i = 0 /\ sp.fen \notin Positions)
           => board = StartPos /\ history = << StartPos >>)

\* set_position is aborted by a string of four bytes and three characters
C33_AbortedByText ==
  /\ sp.pc = "aborted" /\ ~sp.checked
  /\ sp.moves[sp.i] = << "a", "1", "U+00E9" >>

\* a score that is finite and no larger than a mate
InRange(x) == x >= 0 - MATE_EVAL /\ x <= MATE_EVAL

\* C34: every value returned by eval, quiescence and search, every score
\* stored in the transposition table and the score play_move returns lie in
\* [-MATE_EVAL, MATE_EVAL]; the infinities of the initial window and of the
\* initial best values are never returned or stored.
C34_ScoresInRange ==
  /\ \A p \in Positions : InRange(eval(p))
  /\ InRange(ret)
  /\ \A entry \in transposition_table : InRange(entry.eval)
  /\ ev.store = "stored" => InRange(ev.sentry.eval)
  /\ InRange(result.eval) /\ InRange(committed.eval) /\ InRange(pm.best_eval)
  /\ \A k \in 1 .. Len(stack) :
       /\ stack[k].alpha = NEG_INFINITY \/ InRange(stack[k].alpha)
       /\ stack[k].beta = INFINITY \/ InRange(stack[k].beta)

\* C34 witness: a node searched with the full window, whose best value
\* started at an infinity, has stored and returned a mate score
C34_Witness ==
  /\ ev.op = "search_loop" /\ ev.exit = "complete" /\ ev.store = "stored"
  /\ ev.oalpha = NEG_INFINITY /\ ev.obeta = INFINITY
  /\ ev.sentry.eval = ret /\ Abs(ret) = MATE_EVAL
  /\ ev.sentry \in transposition_table

\* eval on the boards of SpecEval: the integer part and ten times the
\* logarithm of the ratio of the mobilities stay below a mate (e^10 > 22026)
C34_EvalInRange ==
  Evaluated => /\ value.score.num > 0 /\ value.score.den > 0
               /\ value.score.num <= 22026 * value.score.den
               /\ value.score.den <= 22026 * value.score.num
               /\ \/ Abs(value.score.base) = MATE_EVAL /\ value.score.num = value.score.den
                  \/ Abs(value.score.base) + 100 <= MATE_EVAL

====
